---- MODULE Spec2Model ----
(***************************************************************************)
(* Chess rules engine: board model, per-piece move generators, attack      *)
(* predicate, legality filter (getLegalMoves), game-state transition       *)
(* (movePiece) and the check / checkmate / stalemate classifier.           *)
(*                                                                         *)
(* A Position is a record [col, row]; coordinates may lie outside 0..7     *)
(* (the code computes such positions and rejects them at the accessors).   *)
(* A Board is indexed board[row][col].  An absent optional field of the    *)
(* source (undefined) is the string "undefined"; an empty square (null)    *)
(* is the record Null.                                                     *)
(***************************************************************************)
EXTENDS Integers, Sequences, FiniteSets, TLC

\* ------------------------------------------------------------------------
\* Bounds of the model
\* ------------------------------------------------------------------------
\* Number of successful movePiece calls explored after a starting state
\* decoded from a FEN string, and after the standard starting state.
MaxMoves == 2
MaxStdMoves == 1

\* ------------------------------------------------------------------------
\* types.ts
\* ------------------------------------------------------------------------
PAWN == "pawn"
ROOK == "rook"
KNIGHT == "knight"
BISHOP == "bishop"
QUEEN == "queen"
KING == "king"
PieceType == {PAWN, ROOK, KNIGHT, BISHOP, QUEEN, KING}

WHITE == "white"
BLACK == "black"
Color == {WHITE, BLACK}

\* null (an empty square, or "no piece" returned by an accessor)
Null == [type |-> "null", color |-> "null", hasMoved |-> "undefined"]

\* A piece record; hasMoved is "undefined" until movePiece sets it "true".
Piece(t, c, h) == [type |-> t, color |-> c, hasMoved |-> h]

Pos(c, r) == [col |-> c, row |-> r]

\* An absent optional Position (Move.capturedPiecePosition)
UndefinedPos == [col |-> -100, row |-> -100]

\* The 64 squares of the board, and the index range of a row / column.
Idx == 0 .. 7
Squares == {Pos(c, r) : c \in Idx, r \in Idx}

\* JavaScript truthiness of the optional hasMoved flag
Truthy(h) == h = "true"

Abs(n) == IF n < 0 THEN -n ELSE n
Sign(n) == IF n < 0 THEN -1 ELSE IF n > 0 THEN 1 ELSE 0

\* helper.ts
arePositionsEqual(a, b) == a.col = b.col /\ a.row = b.row

\* ------------------------------------------------------------------------
\* board.ts
\* ------------------------------------------------------------------------
EmptyBoard == [r \in Idx |-> [c \in Idx |-> Null]]

\* The bounds test with both upper limits included
isValidPositionInclusive(position) ==
    position.col >= 0 /\ position.col <= 8 /\ position.row >= 0 /\ position.row <= 8

isValidPosition(position) ==
    position.col >= 0 /\ position.col < 8 /\ position.row >= 0 /\ position.row < 8

getPieceAt(position, board) ==
    IF ~isValidPosition(position) THEN Null ELSE board[position.row][position.col]

\* placePiece / clearPosition mutate the board they are given; here they
\* return the board after the call (unchanged for an invalid position).
placePiece(board, position, piece) ==
    IF ~isValidPosition(position) THEN board
    ELSE [board EXCEPT ![position.row][position.col] = piece]

clearPosition(board, position) ==
    IF ~isValidPosition(position) THEN board
    ELSE [board EXCEPT ![position.row][position.col] = Null]

\* What placePiece and clearPosition return: true if the square was written
placePieceReturns(board, position, piece) == isValidPosition(position)

clearPositionReturns(board, position) == isValidPosition(position)

\* Reading or writing board[position.row][position.col] raises when
\* board[position.row] is undefined; the accessors raise if they get there
indexRaises(position, board) == position.row \notin DOMAIN board

accessorRaises(position, board) ==
    isValidPosition(position) /\ indexRaises(position, board)

BackRank == <<ROOK, KNIGHT, BISHOP, QUEEN, KING, BISHOP, KNIGHT, ROOK>>

initBoard ==
    [r \in Idx |-> [c \in Idx |->
        IF r = 0 THEN Piece(BackRank[c + 1], BLACK, "undefined")
        ELSE IF r = 1 THEN Piece(PAWN, BLACK, "undefined")
        ELSE IF r = 6 THEN Piece(PAWN, WHITE, "undefined")
        ELSE IF r = 7 THEN Piece(BackRank[c + 1], WHITE, "undefined")
        ELSE Null]]

\* A walk that looks at the target square as well
RECURSIVE PathWalkOntoTarget(_, _, _, _, _, _)
PathWalkOntoTarget(col, row, deltaCol, deltaRow, to, board) ==
    IF board[row][col] # Null THEN FALSE
    ELSE IF col = to.col /\ row = to.row THEN TRUE
    ELSE PathWalkOntoTarget(col + deltaCol, row + deltaRow, deltaCol, deltaRow, to, board)

\* The walk of isPathClear from (col,row) towards `to`, one step at a time.
RECURSIVE PathWalk(_, _, _, _, _, _)
PathWalk(col, row, deltaCol, deltaRow, to, board) ==
    IF col = to.col /\ row = to.row THEN TRUE
    ELSE IF board[row][col] # Null THEN FALSE
    ELSE PathWalk(col + deltaCol, row + deltaRow, deltaCol, deltaRow, to, board)

\* isPathClear raises an error for a pair of squares that is neither on a
\* common row / column nor on a common diagonal.
isPathClearThrows(from, to) ==
    LET deltaCol == Sign(to.col - from.col)
        deltaRow == Sign(to.row - from.row)
        xDiff == Abs(to.col - from.col)
        yDiff == Abs(to.row - from.row)
    IN  ~(deltaCol = 0 /\ deltaRow = 0)
        /\ ~(deltaCol = 0 \/ deltaRow = 0 \/ xDiff = yDiff)

\* What isPathClear yields: TRUE or FALSE, or the Error it throws.  No caller
\* catches it, so a throw stops the evaluation of whatever uses the result
\* as a boolean.
isPathClear(from, to, board) ==
    LET deltaCol == Sign(to.col - from.col)
        deltaRow == Sign(to.row - from.row)
    IN  IF deltaCol = 0 /\ deltaRow = 0 THEN TRUE
        ELSE IF isPathClearThrows(from, to)
        THEN "Error: Path must be straight (horizontal, vertical, or diagonal)"
        ELSE PathWalk(from.col + deltaCol, from.row + deltaRow, deltaCol, deltaRow, to, board)

\* ------------------------------------------------------------------------
\* game.ts : attack predicate and check detection
\* ------------------------------------------------------------------------
OtherColor(color) == IF color = WHITE THEN BLACK ELSE WHITE

\* A rook, bishop or queen asking for the path to any square
onLineOfAnyPiece(piece, deltaRow, deltaCol) ==
    piece.type \in {ROOK, BISHOP, QUEEN}

\* The test that canPieceAttackPosition makes for a rook, a bishop or a queen
\* before it asks isPathClear: the target is on a line the piece moves along.
onLineOfPiece(piece, deltaRow, deltaCol) ==
    CASE piece.type = ROOK -> deltaRow = 0 \/ deltaCol = 0
      [] piece.type = BISHOP -> Abs(deltaRow) = Abs(deltaCol)
      [] piece.type = QUEEN ->
            deltaRow = 0 \/ deltaCol = 0 \/ Abs(deltaRow) = Abs(deltaCol)
      [] OTHER -> FALSE

\* Every piece attacking the way a queen does
canPieceAttackAsQueen(piece, piecePosition, targetPosition, board) ==
    /\ ~isPathClearThrows(piecePosition, targetPosition)
    /\ isPathClear(piecePosition, targetPosition, board)

canPieceAttackPosition(piece, piecePosition, targetPosition, board) ==
    LET deltaRow == targetPosition.row - piecePosition.row
        deltaCol == targetPosition.col - piecePosition.col
        absDeltaRow == Abs(deltaRow)
        absDeltaCol == Abs(deltaCol)
    IN  CASE piece.type = PAWN ->
                LET direction == IF piece.color = WHITE THEN -1 ELSE 1
                IN  absDeltaCol = 1 /\ deltaRow = direction
          [] piece.type = ROOK ->
                onLineOfPiece(piece, deltaRow, deltaCol)
                /\ isPathClear(piecePosition, targetPosition, board)
          [] piece.type = KNIGHT ->
                (absDeltaRow = 2 /\ absDeltaCol = 1) \/ (absDeltaRow = 1 /\ absDeltaCol = 2)
          [] piece.type = BISHOP ->
                onLineOfPiece(piece, deltaRow, deltaCol)
                /\ isPathClear(piecePosition, targetPosition, board)
          [] piece.type = QUEEN ->
                onLineOfPiece(piece, deltaRow, deltaCol)
                /\ isPathClear(piecePosition, targetPosition, board)
          [] piece.type = KING ->
                absDeltaRow <= 1 /\ absDeltaCol <= 1
          [] OTHER -> FALSE

\* Row-major scan order of the double loop `for row ... for col ...`
ScanIndex(p) == p.row * 8 + p.col

\* The squares holding a king of `color`
KingSquares(board, color) ==
    {p \in Squares : board[p.row][p.col].type = KING /\ board[p.row][p.col].color = color}

\* findKingPosition: the first king of `color` in scan order, or UndefinedPos
\* (the source's null) if there is none.
findKingPosition(gameState, color) ==
    LET ks == KingSquares(gameState.board, color)
    IN  IF ks = {} THEN UndefinedPos
        ELSE CHOOSE p \in ks : \A q \in ks : ScanIndex(p) <= ScanIndex(q)

\* A test that finds no king in check
\* In check exactly when there is no king to find
inCheckWithoutKing(gameState, color) ==
    KingSquares(gameState.board, color) = {}

neverInCheck(gameState, color) ==
    FALSE

isPlayerInCheck(gameState, color) ==
    LET kingPosition == findKingPosition(gameState, color)
        board == gameState.board
    IN  IF kingPosition = UndefinedPos THEN FALSE
        ELSE \E p \in Squares :
                /\ board[p.row][p.col] # Null
                /\ board[p.row][p.col].color = OtherColor(color)
                /\ canPieceAttackPosition(board[p.row][p.col], p, kingPosition, board)

\* ------------------------------------------------------------------------
\* moves/*.ts : per-piece candidate generators
\* ------------------------------------------------------------------------
\* A Move; capture is "true" / "false" / "undefined", special is one of the
\* SpecialMove strings or "undefined".
Mv(from, to, capture, special, capturedPiecePosition) ==
    [from |-> from, to |-> to, capture |-> capture, special |-> special,
     capturedPiecePosition |-> capturedPiecePosition]

\* Concatenation of a sequence of sequences (moves.push(...xs) in a loop)
RECURSIVE Flatten(_)
Flatten(seqs) ==
    IF seqs = <<>> THEN <<>> ELSE Head(seqs) \o Flatten(Tail(seqs))

\* rook: getMovesInDirection, from the square (currentCol, currentRow) on
RECURSIVE getMovesInDirection(_, _, _, _, _, _, _)
getMovesInDirection(position, currentCol, currentRow, deltaCol, deltaRow, pieceColor, board) ==
    IF ~isValidPosition(Pos(currentCol, currentRow)) THEN <<>>
    ELSE LET targetPosition == Pos(currentCol, currentRow)
             targetPiece == getPieceAt(targetPosition, board)
         IN  IF targetPiece = Null
             THEN <<Mv(position, targetPosition, "false", "undefined", UndefinedPos)>>
                  \o getMovesInDirection(position, currentCol + deltaCol, currentRow + deltaRow,
                                         deltaCol, deltaRow, pieceColor, board)
             ELSE IF targetPiece.color # pieceColor
                  THEN <<Mv(position, targetPosition, "true", "undefined", UndefinedPos)>>
                  ELSE <<>>

RookDirections == <<Pos(-1, 0), Pos(1, 0), Pos(0, -1), Pos(0, 1)>>

getRookMoves(position, gameState) ==
    LET board == gameState.board
        piece == getPieceAt(position, board)
    IN  IF piece = Null \/ piece.type # ROOK THEN <<>>
        ELSE Flatten([i \in 1 .. Len(RookDirections) |->
                getMovesInDirection(position,
                    position.col + RookDirections[i].col, position.row + RookDirections[i].row,
                    RookDirections[i].col, RookDirections[i].row, piece.color, board)])

\* queen: its own getMovesInDirection (x = col, y = row; no capture flag on
\* a move to an empty square)
RECURSIVE getMovesInDirectionXY(_, _, _, _, _, _, _)
getMovesInDirectionXY(position, currentX, currentY, dx, dy, pieceColor, board) ==
    IF ~isValidPosition(Pos(currentX, currentY)) THEN <<>>
    ELSE LET targetPosition == Pos(currentX, currentY)
             targetPiece == getPieceAt(targetPosition, board)
         IN  IF targetPiece = Null
             THEN <<Mv(position, targetPosition, "undefined", "undefined", UndefinedPos)>>
                  \o getMovesInDirectionXY(position, currentX + dx, currentY + dy,
                                           dx, dy, pieceColor, board)
             ELSE IF targetPiece.color # pieceColor
                  THEN <<Mv(position, targetPosition, "true", "undefined", UndefinedPos)>>
                  ELSE <<>>

QueenDirections ==
    <<Pos(-1, 0), Pos(1, 0), Pos(0, -1), Pos(0, 1),
      Pos(-1, -1), Pos(1, -1), Pos(-1, 1), Pos(1, 1)>>

getQueenMoves(position, gameState) ==
    LET board == gameState.board
        piece == getPieceAt(position, board)
    IN  IF piece = Null \/ piece.type # QUEEN THEN <<>>
        ELSE Flatten([i \in 1 .. Len(QueenDirections) |->
                getMovesInDirectionXY(position,
                    position.col + QueenDirections[i].col, position.row + QueenDirections[i].row,
                    QueenDirections[i].col, QueenDirections[i].row, piece.color, board)])

\* A bishop's walk that goes on beyond the piece it captures
RECURSIVE BishopWalkBeyondCapture(_, _, _, _, _)
BishopWalkBeyondCapture(from, currentPos, dir, piece, board) ==
    LET nextPos == Pos(currentPos.col + dir.col, currentPos.row + dir.row)
        targetPiece == getPieceAt(nextPos, board)
    IN  IF ~isValidPosition(nextPos) THEN <<>>
        ELSE IF targetPiece # Null /\ targetPiece.color = piece.color THEN <<>>
        ELSE <<Mv(from, nextPos, IF targetPiece # Null THEN "true" ELSE "false",
                  "undefined", UndefinedPos)>>
             \o BishopWalkBeyondCapture(from, nextPos, dir, piece, board)

\* bishop: the inner while loop of getBishopMoves for one direction, from
\* currentPos (the square reached so far) on
RECURSIVE BishopWalk(_, _, _, _, _)
BishopWalk(from, currentPos, dir, piece, board) ==
    LET nextPos == Pos(currentPos.col + dir.col, currentPos.row + dir.row)
        targetPiece == getPieceAt(nextPos, board)
    IN  IF ~isValidPosition(nextPos) THEN <<>>
        ELSE IF targetPiece # Null /\ targetPiece.color = piece.color THEN <<>>
        ELSE <<Mv(from, nextPos, IF targetPiece # Null THEN "true" ELSE "false",
                  "undefined", UndefinedPos)>>
             \o (IF targetPiece # Null THEN <<>>
                 ELSE BishopWalk(from, nextPos, dir, piece, board))

BishopDirections == <<Pos(1, 1), Pos(1, -1), Pos(-1, 1), Pos(-1, -1)>>

getBishopMoves(from, gameState) ==
    LET piece == getPieceAt(from, gameState.board)
    IN  IF piece = Null \/ piece.type # BISHOP THEN <<>>
        ELSE Flatten([i \in 1 .. Len(BishopDirections) |->
                BishopWalk(from, from, BishopDirections[i], piece, gameState.board)])

\* knight: the in-range L-shaped target squares, in the source's order
KnightOffsets ==
    <<Pos(-2, -1), Pos(-2, 1), Pos(-1, -2), Pos(-1, 2),
      Pos(1, -2), Pos(1, 2), Pos(2, -1), Pos(2, 1)>>

InRange07(move) ==
    move.col >= 0 /\ move.col <= 7 /\ move.row >= 0 /\ move.row <= 7

getKnightMoves(position) ==
    SelectSeq([i \in 1 .. Len(KnightOffsets) |->
                  Pos(position.col + KnightOffsets[i].col, position.row + KnightOffsets[i].row)],
              InRange07)

\* the KNIGHT case of the dispatcher: positions to moves, own pieces dropped
KnightCandidates(position, piece, gameState) ==
    LET knightPositions == getKnightMoves(position)
    IN  Flatten([i \in 1 .. Len(knightPositions) |->
            LET to == knightPositions[i]
                targetPiece == getPieceAt(to, gameState.board)
            IN  IF targetPiece # Null /\ targetPiece.color = piece.color THEN <<>>
                ELSE <<Mv(position, to, IF targetPiece # Null THEN "true" ELSE "false",
                          "undefined", UndefinedPos)>>])

\* pawn
\* Forward moves with a two-square advance that jumps over the square ahead
getForwardMovesJumping(position, direction, startingRank, promotionRank, board) ==
    LET oneSquareForward == Pos(position.col, position.row + direction)
        twoSquaresForward == Pos(position.col, position.row + direction * 2)
    IN  (IF isValidPosition(oneSquareForward) /\ getPieceAt(oneSquareForward, board) = Null
         THEN <<Mv(position, oneSquareForward, "undefined",
                   IF oneSquareForward.row = promotionRank THEN "promotion" ELSE "undefined",
                   UndefinedPos)>>
         ELSE <<>>)
        \o (IF position.row = startingRank
               /\ isValidPosition(twoSquaresForward)
               /\ getPieceAt(twoSquaresForward, board) = Null
            THEN <<Mv(position, twoSquaresForward, "undefined", "two-square-advance",
                      UndefinedPos)>>
            ELSE <<>>)

getForwardMoves(position, direction, startingRank, promotionRank, board) ==
    LET oneSquareForward == Pos(position.col, position.row + direction)
        twoSquaresForward == Pos(position.col, position.row + direction * 2)
    IN  IF isValidPosition(oneSquareForward) /\ getPieceAt(oneSquareForward, board) = Null
        THEN <<Mv(position, oneSquareForward, "undefined",
                  IF oneSquareForward.row = promotionRank THEN "promotion" ELSE "undefined",
                  UndefinedPos)>>
             \o (IF position.row = startingRank
                    /\ isValidPosition(twoSquaresForward)
                    /\ getPieceAt(twoSquaresForward, board) = Null
                 THEN <<Mv(position, twoSquaresForward, "undefined", "two-square-advance",
                           UndefinedPos)>>
                 ELSE <<>>)
        ELSE <<>>

getCaptureMoves(position, direction, color, promotionRank, board) ==
    LET capturePositions == <<Pos(position.col - 1, position.row + direction),
                              Pos(position.col + 1, position.row + direction)>>
    IN  Flatten([i \in 1 .. 2 |->
            LET capturePos == capturePositions[i]
                targetPiece == getPieceAt(capturePos, board)
            IN  IF ~isValidPosition(capturePos) THEN <<>>
                ELSE IF targetPiece # Null /\ targetPiece.color # color
                THEN <<Mv(position, capturePos, "true",
                          IF capturePos.row = promotionRank THEN "promotion" ELSE "undefined",
                          UndefinedPos)>>
                ELSE <<>>])

\* En passant offered to every pawn of the row, whatever its column
getEnPassantMovesAlongRow(position, direction, color, gameState) ==
    LET moveHistory == gameState.moveHistory
    IN  IF Len(moveHistory) = 0 THEN <<>>
        ELSE LET lastMove == moveHistory[Len(moveHistory)]
             IN  IF /\ lastMove.piece.type = PAWN
                    /\ lastMove.piece.color # color
                    /\ lastMove.special = "two-square-advance"
                    /\ position.row = lastMove.to.row
                 THEN <<Mv(position, Pos(lastMove.to.col, position.row + direction), "true",
                           "en-passant", lastMove.to)>>
                 ELSE <<>>

getEnPassantMoves(position, direction, color, gameState) ==
    LET moveHistory == gameState.moveHistory
    IN  IF Len(moveHistory) = 0 THEN <<>>
        ELSE LET lastMove == moveHistory[Len(moveHistory)]
                 colDiff == lastMove.to.col - position.col
             IN  IF /\ lastMove.piece.type = PAWN
                    /\ lastMove.piece.color # color
                    /\ lastMove.special = "two-square-advance"
                    /\ Abs(lastMove.from.row - lastMove.to.row) = 2
                    /\ position.row = lastMove.to.row
                    /\ Abs(colDiff) = 1
                 THEN <<Mv(position, Pos(lastMove.to.col, position.row + direction), "true",
                           "en-passant", lastMove.to)>>
                 ELSE <<>>

getPawnMoves(position, gameState) ==
    LET board == gameState.board
        piece == getPieceAt(position, board)
        direction == IF piece.color = WHITE THEN -1 ELSE 1
        startingRank == IF piece.color = WHITE THEN 6 ELSE 1
        promotionRank == IF piece.color = WHITE THEN 0 ELSE 7
    IN  IF piece = Null \/ piece.type # PAWN THEN <<>>
        ELSE getForwardMoves(position, direction, startingRank, promotionRank, board)
             \o getCaptureMoves(position, direction, piece.color, promotionRank, board)
             \o getEnPassantMoves(position, direction, piece.color, gameState)

\* king
\* Castling allowed without looking at the squares the king passes
canCastleThroughAttack(kingPosition, rookPosition, gameState) ==
    LET board == gameState.board
        king == getPieceAt(kingPosition, board)
        rook == getPieceAt(rookPosition, board)
    IN  /\ ~(king = Null \/ king.type # KING \/ Truthy(king.hasMoved))
        /\ ~(rook = Null \/ rook.type # ROOK \/ Truthy(rook.hasMoved))
        /\ king.color = rook.color
        /\ kingPosition.row = rookPosition.row
        /\ ~isPlayerInCheck(gameState, king.color)
        /\ isPathClear(kingPosition, rookPosition, board)

canCastle(kingPosition, rookPosition, gameState) ==
    LET board == gameState.board
        king == getPieceAt(kingPosition, board)
        rook == getPieceAt(rookPosition, board)
        direction == IF rookPosition.col > kingPosition.col THEN 1 ELSE -1
    IN  /\ ~(king = Null \/ king.type # KING \/ Truthy(king.hasMoved))
        /\ ~(rook = Null \/ rook.type # ROOK \/ Truthy(rook.hasMoved))
        /\ king.color = rook.color
        /\ kingPosition.row = rookPosition.row
        /\ ~isPlayerInCheck(gameState, king.color)
        /\ isPathClear(kingPosition, rookPosition, board)
        /\ \A i \in 1 .. 2 :
              LET checkPos == Pos(kingPosition.col + direction * i, kingPosition.row)
                  clonedBoard == placePiece(clearPosition(board, kingPosition), checkPos, king)
                  clonedGameState == [gameState EXCEPT !.board = clonedBoard]
              IN  ~isPlayerInCheck(clonedGameState, king.color)

KingDirections ==
    <<Pos(-1, -1), Pos(0, -1), Pos(1, -1), Pos(-1, 0),
      Pos(1, 0), Pos(-1, 1), Pos(0, 1), Pos(1, 1)>>

getKingMoves(position, gameState) ==
    LET col == position.col
        row == position.row
        board == gameState.board
        kingPiece == getPieceAt(position, board)
        kingColor == kingPiece.color
        steps == Flatten([i \in 1 .. Len(KingDirections) |->
            LET newCol == col + KingDirections[i].col
                newRow == row + KingDirections[i].row
            IN  IF newCol < 0 \/ newCol > 7 \/ newRow < 0 \/ newRow > 7 THEN <<>>
                ELSE LET targetSquare == board[newRow][newCol]
                     IN  IF targetSquare = Null \/ targetSquare.color # kingColor
                         THEN <<Mv(Pos(col, row), Pos(newCol, newRow),
                                   IF targetSquare # Null /\ targetSquare.color # kingColor
                                   THEN "true" ELSE "undefined",
                                   "undefined", UndefinedPos)>>
                         ELSE <<>>])
        kingside == IF canCastle(position, Pos(7, row), gameState)
                    THEN <<Mv(position, Pos(col + 2, row), "undefined", "castling", UndefinedPos)>>
                    ELSE <<>>
        queenside == IF canCastle(position, Pos(0, row), gameState)
                     THEN <<Mv(position, Pos(col - 2, row), "undefined", "castling", UndefinedPos)>>
                     ELSE <<>>
    IN  IF kingPiece = Null \/ kingPiece.type # KING THEN <<>>
        ELSE steps \o (IF ~Truthy(kingPiece.hasMoved) THEN kingside \o queenside ELSE <<>>)

\* ------------------------------------------------------------------------
\* moves/index.ts : the dispatcher and the legality filter
\* ------------------------------------------------------------------------
\* The switch over piece.type
potentialMoves(position, piece, gameState) ==
    CASE piece.type = PAWN -> getPawnMoves(position, gameState)
      [] piece.type = ROOK -> getRookMoves(position, gameState)
      [] piece.type = KNIGHT -> KnightCandidates(position, piece, gameState)
      [] piece.type = BISHOP -> getBishopMoves(position, gameState)
      [] piece.type = QUEEN -> getQueenMoves(position, gameState)
      [] piece.type = KING -> getKingMoves(position, gameState)
      [] OTHER -> <<>>

\* The board on which the filter tests a candidate: the mover taken off its
\* square, a piece on move.to and the en-passant victim removed, the mover
\* (marked moved) put on move.to.
simulatedBoard(position, move, board) ==
    LET movingPiece == getPieceAt(position, board)
        b1 == clearPosition(board, position)
        b2 == IF getPieceAt(move.to, b1) # Null THEN clearPosition(b1, move.to) ELSE b1
        b3 == IF move.special = "en-passant" /\ move.capturedPiecePosition # UndefinedPos
              THEN clearPosition(b2, move.capturedPiecePosition) ELSE b2
    IN  placePiece(b3, move.to, [movingPiece EXCEPT !.hasMoved = "true"])

\* A filter that keeps every candidate move
keepsEveryCandidate(position, piece, move, gameState) ==
    TRUE

\* The predicate of potentialMoves.filter(...)
keepsKingSafe(position, piece, move, gameState) ==
    LET tempGameState == [gameState EXCEPT !.board = simulatedBoard(position, move, gameState.board)]
    IN  ~isPlayerInCheck(tempGameState, piece.color)

\* The legal moves of a piece whichever side is to move
getLegalMovesOfEitherColor(position, gameState) ==
    IF ~isValidPosition(position) THEN <<>>
    ELSE LET piece == getPieceAt(position, gameState.board)
         IN  IF piece = Null THEN <<>>
             ELSE LET Keep(move) == keepsKingSafe(position, piece, move, gameState)
                  IN  SelectSeq(potentialMoves(position, piece, gameState), Keep)

getLegalMoves(position, gameState) ==
    IF ~isValidPosition(position) THEN <<>>
    ELSE LET piece == getPieceAt(position, gameState.board)
         IN  IF piece = Null THEN <<>>
             ELSE IF piece.color # gameState.currentTurn THEN <<>>
             ELSE LET Keep(move) == keepsKingSafe(position, piece, move, gameState)
                  IN  SelectSeq(potentialMoves(position, piece, gameState), Keep)

\* ------------------------------------------------------------------------
\* game.ts : movePiece and the game status
\* ------------------------------------------------------------------------
\* A GameState is [board, boardRef, currentTurn, moveHistory, isCheck,
\* isCheckmate, isStalemate].  board is the content of the 8x8 array and
\* boardRef the identity of that array object: two states with the same
\* boardRef share one array, so a write through one is seen through the other.

\* The destinations of a sequence of moves
Destinations(moves) == {moves[i].to : i \in 1 .. Len(moves)}

\* null returned by movePiece, undefined returned by Array.find
NullState == [isNull |-> TRUE]
NoMove == Mv(UndefinedPos, UndefinedPos, "undefined", "undefined", UndefinedPos)

\* The argument handed back: the same array object
sameBoardObject(boardObject) ==
    boardObject

\* cloneBoard: a new array object holding copies of the piece records
cloneBoard(boardObject) ==
    [ref |-> boardObject.ref + 1, cells |-> boardObject.cells]

\* The first move that ends in the column of `to`
RECURSIVE findMoveToColumn(_, _)
findMoveToColumn(legalMoves, to) ==
    IF legalMoves = <<>> THEN NoMove
    ELSE IF Head(legalMoves).to.col = to.col THEN Head(legalMoves)
    ELSE findMoveToColumn(Tail(legalMoves), to)

\* legalMoves.find((move) => arePositionsEqual(move.to, to))
RECURSIVE findMoveTo(_, _)
findMoveTo(legalMoves, to) ==
    IF legalMoves = <<>> THEN NoMove
    ELSE IF arePositionsEqual(Head(legalMoves).to, to) THEN Head(legalMoves)
    ELSE findMoveTo(Tail(legalMoves), to)

\* promotionType = PieceType.QUEEN as default parameter value
defaultPromotionType(promotionType) ==
    IF promotionType = "undefined" THEN QUEEN ELSE promotionType

ValidPromotionTypes == {ROOK, KNIGHT, BISHOP, QUEEN}

\* The requested type taken as it is
requestedPromotionType(promotionType) ==
    promotionType

finalPromotionType(promotionType) ==
    IF promotionType \in ValidPromotionTypes THEN promotionType ELSE QUEEN

\* The moved piece put down as it was, not marked moved
movedPieceUnmarked(piece, validMove, promotionType) ==
    IF validMove.special = "promotion"
    THEN Piece(finalPromotionType(promotionType), piece.color, "true")
    ELSE piece

\* A pawn left a pawn wherever it lands
movedPieceUnpromoted(piece, validMove, promotionType) ==
    [piece EXCEPT !.hasMoved = "true"]

\* The piece movePiece places on the destination square
movedPieceOf(piece, validMove, promotionType) ==
    IF validMove.special = "promotion"
    THEN Piece(finalPromotionType(promotionType), piece.color, "true")
    ELSE [piece EXCEPT !.hasMoved = "true"]

\* The captured piece movePiece records (Null if none)
capturedPieceOf(validMove, to, newBoard) ==
    IF validMove.special = "en-passant" /\ validMove.capturedPiecePosition # UndefinedPos
    THEN getPieceAt(validMove.capturedPiecePosition, newBoard)
    ELSE getPieceAt(to, newBoard)

\* The rook relocation of a castling move, done after the king is placed
castleRook(from, to, cells) ==
    LET isKingside == to.col > from.col
        rookFrom == IF isKingside THEN Pos(7, from.row) ELSE Pos(0, from.row)
        rookTo == IF isKingside THEN Pos(5, from.row) ELSE Pos(3, from.row)
        rook == getPieceAt(rookFrom, cells)
    IN  IF rook # Null
        THEN placePiece(clearPosition(cells, rookFrom), rookTo, [rook EXCEPT !.hasMoved = "true"])
        ELSE cells

\* The writes without the removal of the en-passant victim
boardAfterMoveKeepingVictim(from, to, piece, validMove, promotionType, cells) ==
    LET b2 == [cells EXCEPT ![from.row][from.col] = Null]
        b3 == placePiece(b2, to, movedPieceOf(piece, validMove, promotionType))
    IN  IF validMove.special = "castling" THEN castleRook(from, to, b3) ELSE b3

\* The writes movePiece makes to the cloned board, in order
boardAfterMove(from, to, piece, validMove, promotionType, cells) ==
    LET b1 == IF validMove.special = "en-passant" /\ validMove.capturedPiecePosition # UndefinedPos
              THEN clearPosition(cells, validMove.capturedPiecePosition) ELSE cells
        b2 == [b1 EXCEPT ![from.row][from.col] = Null]
        b3 == placePiece(b2, to, movedPieceOf(piece, validMove, promotionType))
    IN  IF validMove.special = "castling" THEN castleRook(from, to, b3) ELSE b3

\* The turn left with the side that has just moved
sameTurn(currentTurn) ==
    currentTurn

\* gameState.currentTurn === Color.WHITE ? Color.BLACK : Color.WHITE
nextTurn(currentTurn) ==
    IF currentTurn = WHITE THEN BLACK ELSE WHITE

moveHistoryEntry(from, to, piece, validMove, capturedPiece, promotionType) ==
    [from |-> from, to |-> to, piece |-> piece, special |-> validMove.special,
     captured |-> capturedPiece,
     promotedTo |-> IF validMove.special = "promotion" THEN promotionType ELSE "undefined"]

\* The array object a call of movePiece has written to, with its final
\* content; NoWrite when it returned before cloning the board.
NoWrite == [ref |-> -1, cells |-> EmptyBoard]

getActivePieces(gameState, color) ==
    {p \in Squares : gameState.board[p.row][p.col] # Null
                     /\ gameState.board[p.row][p.col].color = color}

findAttackingPieces(gameState, defendingColor) ==
    LET kingPosition == findKingPosition(gameState, defendingColor)
        board == gameState.board
    IN  IF kingPosition = UndefinedPos THEN {}
        ELSE {p \in Squares :
                /\ board[p.row][p.col] # Null
                /\ board[p.row][p.col].color = OtherColor(defendingColor)
                /\ canPieceAttackPosition(board[p.row][p.col], p, kingPosition, board)}

\* The squares strictly between from and to on a common line (else none)
getPathBetween(from, to) ==
    LET deltaRow == to.row - from.row
        deltaCol == to.col - from.col
        isLinear == deltaRow = 0 \/ deltaCol = 0 \/ Abs(deltaRow) = Abs(deltaCol)
        rowStep == Sign(deltaRow)
        colStep == Sign(deltaCol)
        n == IF Abs(deltaRow) > Abs(deltaCol) THEN Abs(deltaRow) ELSE Abs(deltaCol)
    IN  IF ~isLinear THEN {}
        ELSE {Pos(from.col + k * colStep, from.row + k * rowStep) : k \in 1 .. (n - 1)}

isValidMove(from, to, gameState) ==
    findMoveTo(getLegalMoves(from, gameState), to) # NoMove

\* Stalemate judged by the moves of the king alone
isStalemateOfKingAlone(gameState, color) ==
    IF isPlayerInCheck(gameState, color) THEN FALSE
    ELSE ~ \E piecePosition \in KingSquares(gameState.board, color) :
            getLegalMoves(piecePosition, gameState) # <<>>

isStalemate(gameState, color) ==
    IF isPlayerInCheck(gameState, color) THEN FALSE
    ELSE ~ \E piecePosition \in getActivePieces(gameState, color) :
            LET legalMoves == getLegalMoves(piecePosition, gameState)
                piece == getPieceAt(piecePosition, gameState.board)
            IN  \E i \in 1 .. Len(legalMoves) :
                    LET tempBoard == placePiece(clearPosition(gameState.board, piecePosition),
                                                legalMoves[i].to,
                                                [piece EXCEPT !.hasMoved = "true"])
                        tempGameState == [gameState EXCEPT !.board = tempBoard,
                                                           !.currentTurn = color]
                    IN  ~isPlayerInCheck(tempGameState, color)

\* The new state with the status flags of the argument carried over
newGameStateKeepingFlags(gameState, written, entry) ==
    [board |-> written.cells,
     boardRef |-> written.ref,
     currentTurn |-> nextTurn(gameState.currentTurn),
     moveHistory |-> Append(gameState.moveHistory, entry),
     isCheck |-> gameState.isCheck,
     isCheckmate |-> gameState.isCheckmate,
     isStalemate |-> gameState.isStalemate]

\* The new state of movePiece: the written board, the other side to move, the
\* entry appended, and the three flags reset
newGameStateOf(gameState, written, entry) ==
    [board |-> written.cells,
     boardRef |-> written.ref,
     currentTurn |-> nextTurn(gameState.currentTurn),
     moveHistory |-> Append(gameState.moveHistory, entry),
     isCheck |-> FALSE, isCheckmate |-> FALSE, isStalemate |-> FALSE]

\* movePiece up to its status update: what it is about to return (the new
\* GameState with the flags reset, or NullState), the array object it has
\* written to, and the legal move it matched.  legalMoves is the value of
\* its call getLegalMoves(from, gameState), read only once the guards on
\* from have passed.
movePieceBeforeStatus(from, to, gameState, promotionTypeArg, legalMoves) ==
    IF ~isValidPosition(from) \/ ~isValidPosition(to)
    THEN [result |-> NullState, written |-> NoWrite, validMove |-> NoMove]
    ELSE IF getPieceAt(from, gameState.board) = Null
    THEN [result |-> NullState, written |-> NoWrite, validMove |-> NoMove]
    ELSE IF getPieceAt(from, gameState.board).color # gameState.currentTurn
    THEN [result |-> NullState, written |-> NoWrite, validMove |-> NoMove]
    ELSE
    LET promotionType == defaultPromotionType(promotionTypeArg)
        piece == getPieceAt(from, gameState.board)
        validMove == findMoveTo(legalMoves, to)
        newBoard == cloneBoard([ref |-> gameState.boardRef, cells |-> gameState.board])
        capturedPiece == capturedPieceOf(validMove, to, newBoard.cells)
        written == [ref |-> newBoard.ref,
                    cells |-> boardAfterMove(from, to, piece, validMove, promotionType,
                                             newBoard.cells)]
        newGameState ==
           newGameStateOf(gameState, written,
                moveHistoryEntry(from, to, piece, validMove, capturedPiece, promotionType))
        playerColor == gameState.currentTurn
        tempStateForCheck == [newGameState EXCEPT !.currentTurn = playerColor]
    IN  IF validMove = NoMove
        THEN [result |-> NullState, written |-> NoWrite, validMove |-> NoMove]
        ELSE IF isPlayerInCheck(tempStateForCheck, playerColor)
        THEN [result |-> NullState, written |-> written, validMove |-> validMove]
        ELSE [result |-> newGameState, written |-> written, validMove |-> validMove]

\* movePiece(from, to, gameState, undefined, true): the status update skipped
movePieceSkippingStatus(from, to, gameState) ==
    movePieceBeforeStatus(from, to, gameState, "undefined",
                          getLegalMoves(from, gameState)).result

\* A defender's move onto target passes isValidMove, movePiece accepts it and
\* it leaves the king of color out of check
savesKing(newGameState, color) ==
    newGameState # NullState /\ ~isPlayerInCheck(newGameState, color)

isCheckmate(gameState, color) ==
    LET kingPosition == findKingPosition(gameState, color)
        kingPiece == getPieceAt(kingPosition, gameState.board)
        kingMoves == getLegalMoves(kingPosition, gameState)
        kingEscapes ==
            \E to \in Destinations(kingMoves) :
                savesKing(movePieceSkippingStatus(kingPosition, to, gameState), color)
        attackingPieces == findAttackingPieces(gameState, color)
        attackerPosition == CHOOSE p \in attackingPieces : TRUE
        attacker == getPieceAt(attackerPosition, gameState.board)
        defenders == getActivePieces(gameState, color) \ {kingPosition}
        targets == {attackerPosition}
                   \cup (IF attacker.type \in {BISHOP, ROOK, QUEEN}
                         THEN getPathBetween(attackerPosition, kingPosition) ELSE {})
        canCaptureOrBlock ==
            \E defenderPos \in defenders :
                \E target \in targets :
                    /\ isValidMove(defenderPos, target, gameState)
                    /\ savesKing(movePieceSkippingStatus(defenderPos, target, gameState), color)
    IN  IF ~isPlayerInCheck(gameState, color) THEN FALSE
        ELSE IF kingPosition = UndefinedPos THEN FALSE
        ELSE IF kingPiece = Null THEN FALSE
        ELSE IF kingEscapes THEN FALSE
        ELSE IF Cardinality(attackingPieces) > 1 THEN TRUE
        ELSE IF Cardinality(attackingPieces) = 1 /\ canCaptureOrBlock THEN FALSE
        ELSE TRUE

\* The flags computed for the side that has just moved
updateStatusOfMover(gameState) ==
    LET currentPlayer == OtherColor(gameState.currentTurn)
        isInCheck == isPlayerInCheck(gameState, currentPlayer)
        isInCheckmate == isInCheck /\ isCheckmate(gameState, currentPlayer)
        isInStalemate == ~isInCheck /\ isStalemate(gameState, currentPlayer)
    IN  [gameState EXCEPT !.isCheck = isInCheck,
                          !.isCheckmate = isInCheckmate,
                          !.isStalemate = isInStalemate]

updateGameStatus(gameState) ==
    LET currentPlayer == gameState.currentTurn
        isInCheck == isPlayerInCheck(gameState, currentPlayer)
        isInCheckmate == isInCheck /\ isCheckmate(gameState, currentPlayer)
        isInStalemate == ~isInCheck /\ isStalemate(gameState, currentPlayer)
    IN  [gameState EXCEPT !.isCheck = isInCheck,
                          !.isCheckmate = isInCheckmate,
                          !.isStalemate = isInStalemate]

\* The status update at the end of movePiece, unless skipped or null
withStatus(call, skipStatusUpdate) ==
    IF skipStatusUpdate \/ call.result = NullState THEN call
    ELSE [call EXCEPT !.result = updateGameStatus(call.result)]

\* One call of movePiece: what it returns (the new GameState, or NullState),
\* the array object it has written to, and the legal move it matched
movePieceCall(from, to, gameState, promotionTypeArg, skipStatusUpdate, legalMoves) ==
    withStatus(movePieceBeforeStatus(from, to, gameState, promotionTypeArg, legalMoves),
               skipStatusUpdate)

\* movePiece returns the new GameState, or NullState
movePiece(from, to, gameState, promotionTypeArg, skipStatusUpdate) ==
    movePieceCall(from, to, gameState, promotionTypeArg, skipStatusUpdate,
                  getLegalMoves(from, gameState)).result

initGameState ==
    [board |-> initBoard, boardRef |-> 0, currentTurn |-> WHITE, moveHistory |-> <<>>,
     isCheck |-> FALSE, isCheckmate |-> FALSE, isStalemate |-> FALSE]

\* ------------------------------------------------------------------------
\* fen.ts : decoding a FEN string (a sequence of characters)
\* ------------------------------------------------------------------------
\* A function that may raise an Error returns Returned(value) or
\* Thrown(message, char, row): the message with the character and the
\* 1-indexed row it names ("" and 0 when it names none).
Returned(value) == [error |-> FALSE, value |-> value]
Thrown(message, char, row) == [error |-> TRUE, message |-> message, char |-> char, row |-> row]

\* String.split on one separator character
RECURSIVE SplitOn(_, _, _)
SplitOn(chars, sep, acc) ==
    IF chars = <<>> THEN <<acc>>
    ELSE IF Head(chars) = sep THEN <<acc>> \o SplitOn(Tail(chars), sep, <<>>)
    ELSE SplitOn(Tail(chars), sep, Append(acc, Head(chars)))

RECURSIVE TrimLeft(_)
TrimLeft(chars) ==
    IF chars # <<>> /\ Head(chars) = " " THEN TrimLeft(Tail(chars)) ELSE chars

RECURSIVE TrimRight(_)
TrimRight(chars) ==
    IF chars # <<>> /\ chars[Len(chars)] = " " THEN TrimRight(SubSeq(chars, 1, Len(chars) - 1))
    ELSE chars

NonEmpty(part) == part # <<>>

\* fen.trim().split(/\s+/): runs of blanks separate the parts
SplitOnBlanks(chars) ==
    LET trimmed == TrimRight(TrimLeft(chars))
    IN  IF trimmed = <<>> THEN <<<<>>>>
        ELSE SelectSeq(SplitOn(trimmed, " ", <<>>), NonEmpty)

FenTypeMap ==
    [p |-> PAWN, r |-> ROOK, n |-> KNIGHT, b |-> BISHOP, q |-> QUEEN, k |-> KING]

UpperLetters == {"P", "R", "N", "B", "Q", "K", "X"}
LowerLetters == {"p", "r", "n", "b", "q", "k", "x"}

\* The one character U+212A (KELVIN SIGN), an upper-case letter that is not
\* the letter K and whose lower-case form is the letter k
KelvinSign == "U+212A"

\* String.prototype.toLowerCase (Unicode default case conversion)
toLowerCase(char) ==
    CASE char = "P" -> "p" [] char = "R" -> "r" [] char = "N" -> "n" [] char = "B" -> "b"
      [] char = "Q" -> "q" [] char = "K" -> "k" [] char = "X" -> "x"
      [] char = KelvinSign -> "k" [] OTHER -> char

\* fenChar === fenChar.toUpperCase(): true of every character but a lower-case letter
isUpperCase(char) == char \notin LowerLetters

fenCharToPiece(fenChar) ==
    IF fenChar = " " \/ fenChar = "/" THEN Null
    ELSE LET color == IF isUpperCase(fenChar) THEN WHITE ELSE BLACK
             lowerChar == toLowerCase(fenChar)
         IN  IF lowerChar \notin DOMAIN FenTypeMap THEN Null
             ELSE Piece(FenTypeMap[lowerChar], color, "undefined")

DigitValue ==
    [c \in {"1", "2", "3", "4", "5", "6", "7", "8"} |->
        CASE c = "1" -> 1 [] c = "2" -> 2 [] c = "3" -> 3 [] c = "4" -> 4
          [] c = "5" -> 5 [] c = "6" -> 6 [] c = "7" -> 7 [] c = "8" -> 8]

\* The loop over the characters of one rank: the board after the rank, or
\* Thrown(...) at the first unrecognized character
RECURSIVE fenRow(_, _, _, _)
fenRow(rowStr, row, col, board) ==
    IF rowStr = <<>> THEN Returned(board)
    ELSE LET char == Head(rowStr)
         IN  IF char \in DOMAIN DigitValue
             THEN fenRow(Tail(rowStr), row, col + DigitValue[char], board)
             ELSE IF fenCharToPiece(char) = Null
             THEN Thrown("Invalid FEN: unrecognized character '<c>' in row <n>", char, row + 1)
             ELSE fenRow(Tail(rowStr), row, col + 1,
                         IF col < 8 THEN [board EXCEPT ![row][col] = fenCharToPiece(char)]
                         ELSE board)

RECURSIVE fenRows(_, _, _)
fenRows(rows, row, board) ==
    IF row = 8 THEN Returned(board)
    ELSE LET next == fenRow(rows[row + 1], row, 0, board)
         IN  IF next.error THEN next ELSE fenRows(rows, row + 1, next.value)

fenPiecesToBoard(fenPieces) ==
    LET rows == SplitOn(fenPieces, "/", <<>>)
    IN  IF Len(rows) # 8 THEN Thrown("Invalid FEN: must have 8 rows", "", 0)
        ELSE fenRows(rows, 0, EmptyBoard)

fenToGameState(fen) ==
    LET parts == SplitOnBlanks(fen)
    IN  IF Len(parts) # 6
        THEN Thrown("Invalid FEN: must have 6 space-separated parts", "", 0)
        ELSE LET board == fenPiecesToBoard(parts[1])
             IN  IF board.error THEN board
                 ELSE Returned(
                      [board |-> board.value, boardRef |-> 0,
                       currentTurn |-> IF parts[2] = <<"w">> THEN WHITE ELSE BLACK,
                       moveHistory |-> <<>>,
                       isCheck |-> FALSE, isCheckmate |-> FALSE, isStalemate |-> FALSE])

\* ------------------------------------------------------------------------
\* fen.ts : encoding a GameState as a FEN string
\* ------------------------------------------------------------------------
FenCharMap ==
    [pawn |-> "p", rook |-> "r", knight |-> "n", bishop |-> "b", queen |-> "q", king |-> "k"]

toUpperCase(char) ==
    CASE char = "p" -> "P" [] char = "r" -> "R" [] char = "n" -> "N" [] char = "b" -> "B"
      [] char = "q" -> "Q" [] char = "k" -> "K" [] char = "x" -> "X" [] OTHER -> char

pieceToFenChar(piece) ==
    LET char == FenCharMap[piece.type]
    IN  IF piece.color = WHITE THEN toUpperCase(char) ELSE char

DecimalDigits == <<"0", "1", "2", "3", "4", "5", "6", "7", "8", "9">>

\* Number.prototype.toString of a non-negative integer
RECURSIVE toString(_)
toString(n) ==
    IF n < 10 THEN <<DecimalDigits[n + 1]>>
    ELSE toString(n \div 10) \o <<DecimalDigits[(n % 10) + 1]>>

\* The inner loop of boardToFenPieces from column col on, with the count of
\* empty squares pending, and the count left at the end of the row
RECURSIVE fenOfSquares(_, _, _, _)
fenOfSquares(board, row, col, emptyCount) ==
    IF col = 8 THEN (IF emptyCount > 0 THEN toString(emptyCount) ELSE <<>>)
    ELSE LET piece == board[row][col]
         IN  IF piece # Null
             THEN (IF emptyCount > 0 THEN toString(emptyCount) ELSE <<>>)
                  \o <<pieceToFenChar(piece)>>
                  \o fenOfSquares(board, row, col + 1, 0)
             ELSE fenOfSquares(board, row, col + 1, emptyCount + 1)

\* The outer loop of boardToFenPieces from row `row` on
RECURSIVE fenOfRows(_, _)
fenOfRows(board, row) ==
    IF row = 8 THEN <<>>
    ELSE fenOfSquares(board, row, 0, 0)
         \o (IF row < 7 THEN <<"/">> ELSE <<>>)
         \o fenOfRows(board, row + 1)

boardToFenPieces(board) ==
    fenOfRows(board, 0)

\* piece && !piece.hasMoved
PresentAndUnmoved(piece) ==
    piece # Null /\ ~Truthy(piece.hasMoved)

getCastlingRights(gameState) ==
    LET whiteKing == gameState.board[7][4]
        blackKing == gameState.board[0][4]
        whiteKingsideRook == gameState.board[7][7]
        whiteQueensideRook == gameState.board[7][0]
        blackKingsideRook == gameState.board[0][7]
        blackQueensideRook == gameState.board[0][0]
        rights ==
            (IF PresentAndUnmoved(whiteKing) /\ PresentAndUnmoved(whiteKingsideRook)
             THEN <<"K">> ELSE <<>>)
            \o (IF PresentAndUnmoved(whiteKing) /\ PresentAndUnmoved(whiteQueensideRook)
                THEN <<"Q">> ELSE <<>>)
            \o (IF PresentAndUnmoved(blackKing) /\ PresentAndUnmoved(blackKingsideRook)
                THEN <<"k">> ELSE <<>>)
            \o (IF PresentAndUnmoved(blackKing) /\ PresentAndUnmoved(blackQueensideRook)
                THEN <<"q">> ELSE <<>>)
    IN  IF rights = <<>> THEN <<"-">> ELSE rights

\* String.fromCharCode for the codes of the letters a to h
fromCharCode(code) ==
    <<"a", "b", "c", "d", "e", "f", "g", "h">>[code - 96]

\* An en passant field that is always '-'
noEnPassantTarget(gameState) ==
    <<"-">>

getEnPassantTarget(gameState) ==
    IF Len(gameState.moveHistory) = 0 THEN <<"-">>
    ELSE LET lastMove == gameState.moveHistory[Len(gameState.moveHistory)]
             targetRow == IF lastMove.piece.color = WHITE THEN lastMove.to.row + 1
                          ELSE lastMove.to.row - 1
             targetCol == lastMove.to.col
             file == fromCharCode(97 + targetCol)
             rank == toString(8 - targetRow)
         IN  IF lastMove.piece.type = PAWN /\ lastMove.special = "two-square-advance"
             THEN <<file>> \o rank
             ELSE <<"-">>

gameStateToFen(gameState) ==
    LET pieces == boardToFenPieces(gameState.board)
        activeColor == IF gameState.currentTurn = WHITE THEN "w" ELSE "b"
        castlingRights == getCastlingRights(gameState)
        enPassantTarget == getEnPassantTarget(gameState)
        halfmoveClock == <<"0">>
        fullmoveNumber == (Len(gameState.moveHistory) \div 2) + 1
    IN  pieces \o <<" ", activeColor, " ">> \o castlingRights \o <<" ">> \o enPassantTarget
        \o <<" ">> \o halfmoveClock \o <<" ">> \o toString(fullmoveNumber)

\* STARTING_FEN
STARTING_FEN ==
    <<"r", "n", "b", "q", "k", "b", "n", "r", "/", "p", "p", "p", "p", "p", "p", "p", "p", "/", "8", "/", "8", "/", "8", "/", "8", "/", "P", "P", "P", "P", "P", "P", "P", "P", "/", "R", "N", "B", "Q", "K", "B", "N", "R", " ", "w", " ", "K", "Q", "k", "q", " ", "-", " ", "0", " ", "1">>

\* ------------------------------------------------------------------------
\* Positions the games of the model start from
\* ------------------------------------------------------------------------
\* 4k3/3p4/8/4P3/8/8/8/4K3 b - - 0 1 : after d7-d5 the white pawn e5 may capture en passant
FenEnPassant ==
    <<"4", "k", "3", "/", "3", "p", "4", "/", "8", "/", "4", "P", "3", "/", "8", "/", "8", "/", "8", "/", "4", "K", "3", " ", "b", " ", "-", " ", "-", " ", "0", " ", "1">>

\* k7/3p4/2p5/4PP2/3PKP2/3PPP2/8/8 b - - 0 1 : after d7-d5+ white's only legal move is the en-passant capture e5xd6
FenEnPassantOnly ==
    <<"k", "7", "/", "3", "p", "4", "/", "2", "p", "5", "/", "4", "P", "P", "2", "/", "3", "P", "K", "P", "2", "/", "3", "P", "P", "P", "2", "/", "8", "/", "8", " ", "b", " ", "-", " ", "-", " ", "0", " ", "1">>

\* 7k/5Q2/R7/8/8/8/8/8 b - - 0 1 : black king h8, white queen f7, white rook a6
FenStalemateA6 ==
    <<"7", "k", "/", "5", "Q", "2", "/", "R", "7", "/", "8", "/", "8", "/", "8", "/", "8", "/", "8", " ", "b", " ", "-", " ", "-", " ", "0", " ", "1">>

\* R6k/5Q2/8/8/8/8/8/8 b - - 0 1 : black king h8, white queen f7, white rook a8
FenStalemateA8 ==
    <<"R", "6", "k", "/", "5", "Q", "2", "/", "8", "/", "8", "/", "8", "/", "8", "/", "8", "/", "8", " ", "b", " ", "-", " ", "-", " ", "0", " ", "1">>

\* 7k/8/6KP/8/8/8/8/8 w - - 0 1 : h6-h7 stalemates black
FenBeforeStalemate ==
    <<"7", "k", "/", "8", "/", "6", "K", "P", "/", "8", "/", "8", "/", "8", "/", "8", "/", "8", " ", "w", " ", "-", " ", "-", " ", "0", " ", "1">>

\* 6nk/6pp/8/6N1/8/8/8/K7 w - - 0 1 : Ng5-f7 mates the black king
FenBeforeMate ==
    <<"6", "n", "k", "/", "6", "p", "p", "/", "8", "/", "6", "N", "1", "/", "8", "/", "8", "/", "8", "/", "K", "7", " ", "w", " ", "-", " ", "-", " ", "0", " ", "1">>

\* kn6/P7/8/8/8/8/8/7K b - - 0 1 : the white pawn a7 promotes on a8 or by capturing on b8
FenPromotionWhite ==
    <<"k", "n", "6", "/", "P", "7", "/", "8", "/", "8", "/", "8", "/", "8", "/", "8", "/", "7", "K", " ", "b", " ", "-", " ", "-", " ", "0", " ", "1">>

\* 7k/8/8/8/8/8/p7/KN6 w - - 0 1 : the black pawn a2 promotes on a1 or by capturing on b1
FenPromotionBlack ==
    <<"7", "k", "/", "8", "/", "8", "/", "8", "/", "8", "/", "8", "/", "p", "7", "/", "K", "N", "6", " ", "w", " ", "-", " ", "-", " ", "0", " ", "1">>

\* 7k/8/8/8/8/8/7P/4K2R w K - 0 1 : white may castle on the king's side
FenCastleKingside ==
    <<"7", "k", "/", "8", "/", "8", "/", "8", "/", "8", "/", "8", "/", "7", "P", "/", "4", "K", "2", "R", " ", "w", " ", "K", " ", "-", " ", "0", " ", "1">>

\* k7/8/8/8/8/4p3/P7/R3K3 b Q - 0 1 : white may castle on the queen's side unless the pawn reaches e2
FenCastleQueenside ==
    <<"k", "7", "/", "8", "/", "8", "/", "8", "/", "8", "/", "4", "p", "3", "/", "P", "7", "/", "R", "3", "K", "3", " ", "b", " ", "Q", " ", "-", " ", "0", " ", "1">>

\* k7/8/8/8/8/8/7P/6KR w K - 0 1 : white king g1 beside its rook h1
FenKingOffHome ==
    <<"k", "7", "/", "8", "/", "8", "/", "8", "/", "8", "/", "8", "/", "7", "P", "/", "6", "K", "R", " ", "w", " ", "K", " ", "-", " ", "0", " ", "1">>

\* 4r2k/8/8/8/8/8/4B3/4K3 w - - 0 1 : the white bishop e2 is pinned by the rook e8
FenPinned ==
    <<"4", "r", "2", "k", "/", "8", "/", "8", "/", "8", "/", "8", "/", "8", "/", "4", "B", "3", "/", "4", "K", "3", " ", "w", " ", "-", " ", "-", " ", "0", " ", "1">>

\* k7/8/8/8/8/8/7P/5K1R w K - 0 1 : white king f1 two squares from its rook h1
FenKingBesideHome ==
    <<"k", "7", "/", "8", "/", "8", "/", "8", "/", "8", "/", "8", "/", "7", "P", "/", "5", "K", "1", "R", " ", "w", " ", "K", " ", "-", " ", "0", " ", "1">>

StartFens ==
    {FenEnPassant,
     FenEnPassantOnly,
     FenStalemateA6,
     FenStalemateA8,
     FenBeforeStalemate,
     FenBeforeMate,
     FenPromotionWhite,
     FenPromotionBlack,
     FenCastleKingside,
     FenCastleQueenside,
     FenKingOffHome,
     FenKingBesideHome,
     FenPinned}

StartStates == {initGameState} \cup {fenToGameState(fen).value : fen \in StartFens}

\* ------------------------------------------------------------------------
\* Games from the standard start that the caller plays move by move
\* ------------------------------------------------------------------------
Ply(from, to) == [from |-> from, to |-> to]

\* 1.Ng1-f3 Ng8-f6 2.g2-g3 g7-g6 3.Bf1-g2 Bf8-g7 : both sides may castle on the king's side
LineOpening ==
    <<Ply(Pos(6, 7), Pos(5, 5)), Ply(Pos(6, 0), Pos(5, 2)), Ply(Pos(6, 6), Pos(6, 5)), Ply(Pos(6, 1), Pos(6, 2)), Ply(Pos(5, 7), Pos(6, 6)), Ply(Pos(5, 0), Pos(6, 1))>>

\* 4.Ke1-f1 Ke8-f8 5.Kf1-e1 Kf8-e8 6.h2-h3 : both kings have moved and stand on e1 and e8 again
LineKingsReturn ==
    LineOpening \o
    <<Ply(Pos(4, 7), Pos(5, 7)), Ply(Pos(4, 0), Pos(5, 0)), Ply(Pos(5, 7), Pos(4, 7)), Ply(Pos(5, 0), Pos(4, 0)), Ply(Pos(7, 6), Pos(7, 5))>>

\* 4.Rh1-g1 Rh8-g8 5.Rg1-h1 Rg8-h8 6.h2-h3 : both rooks have moved and stand on h1 and h8 again
LineRooksReturn ==
    LineOpening \o
    <<Ply(Pos(7, 7), Pos(6, 7)), Ply(Pos(7, 0), Pos(6, 0)), Ply(Pos(6, 7), Pos(7, 7)), Ply(Pos(6, 0), Pos(7, 0)), Ply(Pos(7, 6), Pos(7, 5))>>

\* 4.O-O O-O 5.h2-h3 : both sides have castled
LineBothCastle ==
    LineOpening \o
    <<Ply(Pos(4, 7), Pos(6, 7)), Ply(Pos(4, 0), Pos(6, 0)), Ply(Pos(7, 6), Pos(7, 5))>>

\* 1.Ng1-f3 Ng8-f6 2.Nf3-e5 e7-e6 3.Ne5-g6 Bf8-e7 : a white knight beside the rook h8
LineKnightRaid ==
    <<Ply(Pos(6, 7), Pos(5, 5)), Ply(Pos(6, 0), Pos(5, 2)), Ply(Pos(5, 5), Pos(4, 3)), Ply(Pos(4, 1), Pos(4, 2)), Ply(Pos(4, 3), Pos(6, 2)), Ply(Pos(5, 0), Pos(4, 1))>>

\* 4.Ng6xh8 Nb8-c6 5.Nh8-g6 : the rook h8 is captured, then h8 is empty
LineRookCaptured ==
    LineKnightRaid \o
    <<Ply(Pos(6, 2), Pos(7, 0)), Ply(Pos(1, 0), Pos(2, 2)), Ply(Pos(7, 0), Pos(6, 2))>>

\* 4.Ng6-e5 : the rook h8 is left alone
LineKnightRetreats ==
    LineKnightRaid \o
    <<Ply(Pos(6, 2), Pos(4, 3))>>

\* 1.g2-g4 h7-h5 2.g4xh5 g7-g6 3.h5xg6 Ng8-f6 4.g6-g7 a7-a6 : a white pawn
\* on g7 with g8 empty and black pieces on f8 and h8
LinePawnRaid ==
    <<Ply(Pos(6, 6), Pos(6, 4)), Ply(Pos(7, 1), Pos(7, 3)), Ply(Pos(6, 4), Pos(7, 3)), Ply(Pos(6, 1), Pos(6, 2)), Ply(Pos(7, 3), Pos(6, 2)), Ply(Pos(6, 0), Pos(5, 2)), Ply(Pos(6, 2), Pos(6, 1)), Ply(Pos(0, 1), Pos(0, 2))>>

\* 5.g7-g8 : the pawn reaches the back rank by a forward move
LinePromotion ==
    LinePawnRaid \o
    <<Ply(Pos(6, 1), Pos(6, 0))>>

\* 5.g7xh8 : the pawn reaches the back rank by capturing the rook
LinePromotionCapture ==
    LinePawnRaid \o
    <<Ply(Pos(6, 1), Pos(7, 0))>>

Lines ==
    {LineKingsReturn, LineRooksReturn, LineBothCastle, LineRookCaptured, LineKnightRetreats,
     LinePromotion, LinePromotionCapture}

\* ------------------------------------------------------------------------
\* The caller: it holds the latest GameState (cur) and the states it
\* obtained earlier (held), and calls movePiece on cur.
\* ------------------------------------------------------------------------
VARIABLES cur, held, last, calls
vars == <<cur, held, last, calls>>

\* Positions beyond each edge of the board
OutsidePositions == {Pos(-1, 5), Pos(8, 7), Pos(4, 8), Pos(6, -1)}

\* Squares passed whatever stands on them
ProbeSquares == {Pos(2, 4), Pos(7, 5)}

\* The positions a caller passes as `from`: every occupied square, the probe
\* squares, and the positions beyond the edges
FromInputs(gameState) ==
    {p \in Squares : gameState.board[p.row][p.col] # Null}
    \cup ProbeSquares \cup OutsidePositions

\* The positions a caller passes as `to` with a given `from`: for a piece,
\* every destination it has before the legality filter, the probe squares and
\* the positions beyond the edges; the probe squares otherwise
ToInputs(from, gameState) ==
    IF from \in Squares /\ gameState.board[from.row][from.col] # Null
    THEN Destinations(potentialMoves(from, gameState.board[from.row][from.col], gameState))
         \cup ProbeSquares \cup OutsidePositions
    ELSE ProbeSquares

\* promotionType arguments ("undefined": the argument is omitted)
PromotionInputs == {"undefined", ROOK, KNIGHT, BISHOP, QUEEN, KING, PAWN}

\* The promotionType argument is read only for a pawn move onto row 0 or 7;
\* the caller omits it otherwise.
PromotionInputsFor(from, to, gameState) ==
    IF getPieceAt(from, gameState.board).type = PAWN /\ to.row \in {0, 7}
    THEN PromotionInputs ELSE {"undefined"}

NoCall ==
    [op |-> "none", returned |-> "none", from |-> UndefinedPos, to |-> UndefinedPos,
     promotionType |-> "undefined", move |-> NoMove,
     fromInRange |-> FALSE, toInRange |-> FALSE, fromEmpty |-> FALSE, ownPiece |-> FALSE,
     candidate |-> FALSE, offered |-> FALSE, arg |-> NullState, argAfter |-> NullState,
     color |-> "null", isPlayerInCheck |-> FALSE, isCheckmate |-> FALSE,
     isStalemate |-> FALSE, fen |-> <<>>, decoded |-> Returned(NullState),
     moves |-> <<>>, attacked |-> {}, clear |-> {},
     piece |-> Null, ok |-> FALSE, raised |-> FALSE,
     legalMoves |-> <<>>, accepted |-> {}]

Init ==
    /\ cur \in StartStates
    /\ held = <<>>
    /\ last = NoCall
    /\ calls = <<>>

\* Memory after a call: a state whose board is the array object the call
\* wrote to shows the written content.
Commit(s, written) ==
    IF written.ref = s.boardRef THEN [s EXCEPT !.board = written.cells] ELSE s

\* The state the caller started from
StartOf == IF held = <<>> THEN cur ELSE held[1].was

MoveBound == IF StartOf = initGameState THEN MaxStdMoves ELSE MaxMoves

\* What the caller remembers of a call of movePiece.  A call that returns
\* null is remembered only as the facts (in range, empty, own piece,
\* candidate before the legality filter, offered) that decide it.
MovePieceRecord(from, to, promotionType, legalMoves, call, moved) ==
    [NoCall EXCEPT
        !.op = "movePiece",
        !.returned = IF moved THEN "state" ELSE "null",
        !.from = IF moved THEN from ELSE UndefinedPos,
        !.to = IF moved THEN to ELSE UndefinedPos,
        !.promotionType = IF moved THEN promotionType ELSE "undefined",
        !.move = IF moved THEN call.validMove ELSE NoMove,
        !.fromInRange = from \in Squares,
        !.toInRange = to \in Squares,
        !.fromEmpty = from \in Squares /\ cur.board[from.row][from.col] = Null,
        !.ownPiece = from \in Squares
                     /\ cur.board[from.row][from.col].color = cur.currentTurn,
        !.candidate = from \in Squares
                      /\ to \in Destinations(potentialMoves(from,
                                    cur.board[from.row][from.col], cur)),
        !.offered = to \in Destinations(legalMoves),
        !.arg = cur,
        !.argAfter = Commit(cur, call.written)]

\* The caller after a call of movePiece: it goes on with the returned state
\* and keeps the argument, or stays with cur when null came back.
Returns(from, to, promotionType, legalMoves, call, moved) ==
    /\ last' = MovePieceRecord(from, to, promotionType, legalMoves, call, moved)
    /\ cur' = IF moved THEN call.result ELSE Commit(cur, call.written)
    /\ held' = [i \in 1 .. Len(held) |->
                   [was |-> held[i].was, now |-> Commit(held[i].now, call.written)]]
               \o (IF moved THEN <<[was |-> cur, now |-> Commit(cur, call.written)]>>
                   ELSE <<>>)
    /\ UNCHANGED calls

Called(from, to, promotionType, legalMoves, call) ==
    Returns(from, to, promotionType, legalMoves, call, call.result # NullState)

\* movePiece(from, to, cur, promotionType) called by the caller; legalMoves
\* is getLegalMoves(from, cur).  The caller stops at the first null and
\* after asking for the status.
MovePiece(from, to, promotionType, legalMoves) ==
    /\ Len(cur.moveHistory) < MoveBound
    /\ last.returned \notin {"null", "status", "fen"}
    /\ Called(from, to, promotionType, legalMoves,
              movePieceCall(from, to, cur, promotionType, FALSE, legalMoves))

\* isPlayerInCheck(cur, color), isCheckmate(cur, color) and
\* isStalemate(cur, color) called by the caller
Status(color) ==
    /\ last.returned \notin {"null", "status", "fen"}
    /\ last' = [NoCall EXCEPT
                   !.op = "status",
                   !.returned = "status",
                   !.color = color,
                   !.isPlayerInCheck = isPlayerInCheck(cur, color),
                   !.isCheckmate = isCheckmate(cur, color),
                   !.isStalemate = isStalemate(cur, color),
                   !.arg = cur,
                   !.argAfter = cur]
    /\ UNCHANGED <<cur, held, calls>>

MovePieceOnLine(from, to, legalMoves) ==
    Called(from, to, "undefined", legalMoves,
           movePieceCall(from, to, cur, "undefined", FALSE, legalMoves))

\* The moves played so far are the first moves of `line`, which has more
FollowsLine(line, moveHistory) ==
    /\ Len(moveHistory) < Len(line)
    /\ \A i \in 1 .. Len(moveHistory) :
          moveHistory[i].from = line[i].from /\ moveHistory[i].to = line[i].to

\* movePiece called with the next move of a line
LineMove(ply) ==
    /\ last.returned \notin {"null", "status", "fen"}
    /\ MovePieceOnLine(ply.from, ply.to, getLegalMoves(ply.from, cur))

\* gameStateToFen(cur) called by the caller, and fenToGameState called on
\* the text it returned
FenWritten(fen) ==
    /\ last' = [NoCall EXCEPT
                   !.op = "gameStateToFen",
                   !.returned = "fen",
                   !.fen = fen,
                   !.decoded = fenToGameState(fen),
                   !.arg = cur,
                   !.argAfter = cur]
    /\ UNCHANGED <<cur, held, calls>>

FenCalls ==
    /\ last.returned \notin {"null", "status", "fen"}
    /\ FenWritten(gameStateToFen(cur))

MoveCalls ==
    \E from \in FromInputs(cur) :
        LET legalMoves == getLegalMoves(from, cur)
        IN  \E to \in ToInputs(from, cur) :
                \E promotionType \in PromotionInputsFor(from, to, cur) :
                    MovePiece(from, to, promotionType, legalMoves)

StatusCalls ==
    \E color \in Color : Status(color)

LineCalls ==
    /\ StartOf = initGameState
    /\ \E line \in Lines :
          /\ FollowsLine(line, cur.moveHistory)
          /\ LineMove(line[Len(cur.moveHistory) + 1])

Next ==
    \/ MoveCalls
    \/ StatusCalls
    \/ LineCalls
    \/ FenCalls

Spec == Init /\ [][Next]_vars

\* ------------------------------------------------------------------------
\* The caller of fenToGameState: it decodes one text
\* ------------------------------------------------------------------------
\* Ranks written into a placement
RankInputs ==
    {<<"8">>,
     <<"k", "7">>,
     <<"4", "P", "3">>,
     <<"r", "n", "b", "q", "k", "b", "n", "r">>,
     <<"x", "7">>,
     <<"3", "X", "4">>,
     <<"9">>,
     <<"0", "P", "P", "P", "4">>,
     <<"5", "-", "2">>,
     <<"6", KelvinSign, "1">>,
     <<"p", "p", "p", "p", "p", "p", "p", "p", "p">>,
     <<"p", "p">>,
     <<"3", "k", "3">>,
     <<"5", "4">>}

\* `count` ranks separated by '/': rank `rank` as the row-th (from 0), empty
\* ranks elsewhere
RECURSIVE Placement(_, _, _)
Placement(rank, row, count) ==
    IF count = 0 THEN <<>>
    ELSE (IF row = 0 THEN rank ELSE <<"8">>)
         \o (IF count > 1 THEN <<"/">> ELSE <<>>)
         \o Placement(rank, row - 1, count - 1)

PlacementInputs ==
    {Placement(rank, row, 8) : rank \in RankInputs, row \in 0 .. 7}
    \cup {Placement(rank, 0, count) : rank \in RankInputs, count \in {1, 7, 9}}
    \cup {<<>>}

\* What follows the placement: five more fields, four, six, and five with
\* blanks doubled and at the end
TailInputs ==
    {<<" ", "w", " ", "-", " ", "-", " ", "0", " ", "1">>,
     <<" ", "w", " ", "-", " ", "-", " ", "0">>,
     <<" ", "w", " ", "-", " ", "-", " ", "0", " ", "1", " ", "2">>,
     <<" ", " ", "b", " ", " ", "K", "Q", "k", "q", " ", "e", "3", " ", "0", " ", "1", " ">>}

FenTexts ==
    {placement \o tail : placement \in PlacementInputs, tail \in TailInputs}
    \cup {<<" ">> \o placement \o tail : placement \in PlacementInputs, tail \in TailInputs}

\* fenToGameState(text) called by the caller
Decoded(text, result) ==
    /\ last' = [NoCall EXCEPT
                   !.op = "fenToGameState",
                   !.returned = IF result.error THEN "thrown" ELSE "decoded",
                   !.fen = text,
                   !.decoded = result]
    /\ UNCHANGED <<cur, held, calls>>

Decode(text) ==
    /\ last = NoCall
    /\ Decoded(text, fenToGameState(text))

FenInit ==
    /\ cur = initGameState
    /\ held = <<>>
    /\ last = NoCall
    /\ calls = <<>>

DecodeCalls ==
    \E text \in FenTexts : Decode(text)

FenNext ==
    \/ DecodeCalls

FenSpec == FenInit /\ [][FenNext]_vars

\* ------------------------------------------------------------------------
\* Calls in progress: which function of game.ts and moves/ calls which.
\* `calls` is the stack of the calls that have not returned yet; Spec and
\* FenSpec leave it empty.
\* ------------------------------------------------------------------------
\* A call site: the function called and the skipStatusUpdate argument passed
\* (FALSE where the callee has no such parameter)
Site(fn) == [fn |-> fn, skipStatusUpdate |-> FALSE]
SiteSkipping(fn) == [fn |-> fn, skipStatusUpdate |-> TRUE]

\* A call in progress, and how many call sites of its body it has gone past
Frame(fn, skipStatusUpdate, site) ==
    [fn |-> fn, skipStatusUpdate |-> skipStatusUpdate, site |-> site]

\* A movePiece that updates the status whatever it is passed
statusUpdateAlways(skipStatusUpdate) ==
    <<Site("updateGameStatus")>>

\* movePiece: `if (!skipStatusUpdate) newGameState = updateGameStatus(...)`
statusUpdateSites(skipStatusUpdate) ==
    IF skipStatusUpdate THEN <<>> ELSE <<Site("updateGameStatus")>>

\* The call sites of each function's body, in source order.  A site inside a
\* loop stands for each of its iterations (the loops run over the 64 squares
\* or over a list built before the loop); the sites of the branches of a
\* switch follow one another.  Functions that call nothing but the accessors
\* of board.ts and helpers of their own file have no sites.
callSites(fn, skipStatusUpdate) ==
    CASE fn = "movePiece" ->
            <<Site("getLegalMoves"), Site("isPlayerInCheck")>>
            \o statusUpdateSites(skipStatusUpdate)
      [] fn = "isValidMove" -> <<Site("getLegalMoves")>>
      [] fn = "isPlayerInCheck" ->
            <<Site("findKingPosition"), Site("canPieceAttackPosition")>>
      [] fn = "canPieceAttackPosition" ->
            <<Site("isPathClear"), Site("isPathClear"), Site("isPathClear")>>
      [] fn = "isCheckmate" ->
            <<Site("isPlayerInCheck"), Site("findKingPosition"), Site("getLegalMoves"),
              SiteSkipping("movePiece"), Site("isPlayerInCheck"),
              Site("findAttackingPieces"), Site("getActivePieces"),
              Site("isValidMove"), SiteSkipping("movePiece"), Site("isPlayerInCheck"),
              Site("getPathBetween"),
              Site("isValidMove"), SiteSkipping("movePiece"), Site("isPlayerInCheck")>>
      [] fn = "findAttackingPieces" ->
            <<Site("findKingPosition"), Site("canPieceAttackPosition")>>
      [] fn = "isStalemate" ->
            <<Site("isPlayerInCheck"), Site("getActivePieces"), Site("getLegalMoves"),
              Site("isPlayerInCheck")>>
      [] fn = "updateGameStatus" ->
            <<Site("isPlayerInCheck"), Site("isCheckmate"), Site("isStalemate")>>
      [] fn = "getLegalMoves" ->
            <<Site("getPawnMoves"), Site("getRookMoves"), Site("getKnightMoves"),
              Site("getBishopMoves"), Site("getQueenMoves"), Site("getKingMoves"),
              Site("isPlayerInCheck")>>
      [] fn = "getKingMoves" -> <<Site("canCastle"), Site("canCastle")>>
      [] fn = "canCastle" ->
            <<Site("isPlayerInCheck"), Site("isPathClear"), Site("isPlayerInCheck")>>
      [] OTHER -> <<>>

\* The operations a caller starts
Operations ==
    {Site("getLegalMoves"), Site("movePiece"), SiteSkipping("movePiece"),
     Site("isCheckmate"), Site("isStalemate"), Site("updateGameStatus")}

CallInit ==
    /\ cur = initGameState
    /\ held = <<>>
    /\ last = NoCall
    /\ calls = <<>>

\* The caller calls an operation
Start(op) ==
    /\ calls = <<>>
    /\ calls' = <<Frame(op.fn, op.skipStatusUpdate, 0)>>
    /\ UNCHANGED <<cur, held, last>>

\* The running function goes on to call site i of its body
Enter(i) ==
    /\ calls # <<>>
    /\ LET top == calls[Len(calls)]
           sites == callSites(top.fn, top.skipStatusUpdate)
       IN  /\ i > top.site
           /\ i <= Len(sites)
           /\ calls' = Append([calls EXCEPT ![Len(calls)].site = i],
                              Frame(sites[i].fn, sites[i].skipStatusUpdate, 0))
    /\ UNCHANGED <<cur, held, last>>

\* The running function returns
Return ==
    /\ calls # <<>>
    /\ calls' = SubSeq(calls, 1, Len(calls) - 1)
    /\ UNCHANGED <<cur, held, last>>

StartCalls ==
    \E op \in Operations : Start(op)

EnterCalls ==
    \E i \in 1 .. Len(callSites("isCheckmate", FALSE)) : Enter(i)

CallNext ==
    \/ StartCalls
    \/ EnterCalls
    \/ Return

\* A function that is running goes on running: it calls or it returns
CallSpec == CallInit /\ [][CallNext]_vars /\ WF_vars(CallNext)

\* ------------------------------------------------------------------------
\* The move generators, the attack predicate and isPathClear applied to
\* boards: each start position, bare and with one more piece put on it.
\* ------------------------------------------------------------------------
PutSquares == {Pos(4, 3), Pos(7, 5), Pos(4, 6), Pos(3, 1)}

\* gameState with the king of the side to move taken off the board
withoutKing(gameState) ==
    [gameState EXCEPT !.board =
        [r \in Idx |-> [c \in Idx |->
            IF Pos(c, r) \in KingSquares(gameState.board, gameState.currentTurn)
            THEN Null ELSE gameState.board[r][c]]]]

KinglessInputs == {withoutKing(s) : s \in StartStates}

BoardInputs ==
    StartStates \cup KinglessInputs \cup
    {[s EXCEPT !.board = placePiece(s.board, p, Piece(t, c, "true"))] :
        s \in StartStates, p \in PutSquares, t \in PieceType, c \in Color}

BoardInit ==
    /\ cur \in BoardInputs
    /\ held = <<>>
    /\ last = NoCall
    /\ calls = <<>>

\* The squares holding a piece of the other colour than `piece` that
\* canPieceAttackPosition says the piece on `from` attacks
attackedFrom(from, piece, board) ==
    {to \in Squares :
        /\ board[to.row][to.col] # Null
        /\ board[to.row][to.col].color # piece.color
        /\ canPieceAttackPosition(piece, from, to, board)}

\* The generator of the piece on `from` and canPieceAttackPosition applied
CandidatesAsked(from) ==
    /\ last = NoCall
    /\ cur.board[from.row][from.col] # Null
    /\ last' = [NoCall EXCEPT
                   !.op = "candidates",
                   !.returned = "moves",
                   !.from = from,
                   !.moves = potentialMoves(from, cur.board[from.row][from.col], cur),
                   !.attacked = attackedFrom(from, cur.board[from.row][from.col], cur.board)]
    /\ UNCHANGED <<cur, held, calls>>

\* isPathClear(from, to, board) applied to every square `to` on a common
\* row, column or diagonal with `from`
PathAsked(from) ==
    /\ last = NoCall
    /\ last' = [NoCall EXCEPT
                   !.op = "isPathClear",
                   !.returned = "boolean",
                   !.from = from,
                   !.clear = {to \in Squares :
                                /\ ~isPathClearThrows(from, to)
                                /\ isPathClear(from, to, cur.board)}]
    /\ UNCHANGED <<cur, held, calls>>

\* The positions and pieces passed to the board accessors
AccessorPositions == OutsidePositions \cup ProbeSquares

AccessorPieces == {Piece(QUEEN, WHITE, "undefined"), Piece(PAWN, BLACK, "true")}

\* getPieceAt(position, cur.board)
GetPieceAtAsked(position) ==
    /\ last = NoCall
    /\ last' = [NoCall EXCEPT
                   !.op = "getPieceAt",
                   !.returned = "piece",
                   !.from = position,
                   !.raised = accessorRaises(position, cur.board),
                   !.piece = IF accessorRaises(position, cur.board) THEN Null
                             ELSE getPieceAt(position, cur.board),
                   !.arg = cur]
    /\ UNCHANGED <<cur, held, calls>>

\* placePiece(cur.board, position, piece): the board is written in place
PlacePieceAsked(position, piece) ==
    /\ last = NoCall
    /\ last' = [NoCall EXCEPT
                   !.op = "placePiece",
                   !.returned = "boolean",
                   !.from = position,
                   !.piece = piece,
                   !.raised = accessorRaises(position, cur.board),
                   !.ok = placePieceReturns(cur.board, position, piece),
                   !.arg = cur]
    /\ cur' = [cur EXCEPT !.board = placePiece(cur.board, position, piece)]
    /\ UNCHANGED <<held, calls>>

\* clearPosition(cur.board, position)
ClearPositionAsked(position) ==
    /\ last = NoCall
    /\ last' = [NoCall EXCEPT
                   !.op = "clearPosition",
                   !.returned = "boolean",
                   !.from = position,
                   !.raised = accessorRaises(position, cur.board),
                   !.ok = clearPositionReturns(cur.board, position),
                   !.arg = cur]
    /\ cur' = [cur EXCEPT !.board = clearPosition(cur.board, position)]
    /\ UNCHANGED <<held, calls>>

AccessorCalls ==
    \E position \in AccessorPositions :
        \/ GetPieceAtAsked(position)
        \/ \E piece \in AccessorPieces : PlacePieceAsked(position, piece)
        \/ ClearPositionAsked(position)

\* On a board without a king of the side to move: isPlayerInCheck and
\* isCheckmate for that side, the candidates of the piece on `from`,
\* getLegalMoves(from, cur), and the destinations movePiece accepts
KinglessAsked(from, piece, color) ==
    /\ last = NoCall
    /\ KingSquares(cur.board, color) = {}
    /\ piece # Null
    /\ piece.color = color
    /\ last' = [NoCall EXCEPT
                   !.op = "getLegalMoves",
                   !.returned = "moves",
                   !.from = from,
                   !.color = color,
                   !.isPlayerInCheck = isPlayerInCheck(cur, color),
                   !.isCheckmate = isCheckmate(cur, color),
                   !.moves = potentialMoves(from, piece, cur),
                   !.legalMoves = getLegalMoves(from, cur),
                   !.accepted =
                       {to \in Destinations(potentialMoves(from, piece, cur)) :
                           movePiece(from, to, cur, "undefined", FALSE) # NullState},
                   !.arg = cur]
    /\ UNCHANGED <<cur, held, calls>>

KinglessCalls ==
    \E from \in Squares :
        KinglessAsked(from, cur.board[from.row][from.col], cur.currentTurn)

CandidateCalls ==
    \E from \in Squares : CandidatesAsked(from)

PathCalls ==
    \E from \in PutSquares \cup ProbeSquares : PathAsked(from)

BoardNext ==
    \/ CandidateCalls
    \/ PathCalls
    \/ AccessorCalls
    \/ KinglessCalls

BoardSpec == BoardInit /\ [][BoardNext]_vars

\* ------------------------------------------------------------------------
\* Properties
\* ------------------------------------------------------------------------
\* The squares holding a piece of the side to move
OwnSquares(gameState) ==
    {p \in Squares : gameState.board[p.row][p.col] # Null
                     /\ gameState.board[p.row][p.col].color = gameState.currentTurn}

\* The board obtained by applying a move: the en-passant victim is taken
\* off capturedPiecePosition, the mover leaves move.from and stands on move.to.
AppliedBoard(move, board) ==
    LET mover == board[move.from.row][move.from.col]
        b1 == IF move.special = "en-passant"
              THEN [board EXCEPT ![move.capturedPiecePosition.row][move.capturedPiecePosition.col] = Null]
              ELSE board
        b2 == [b1 EXCEPT ![move.from.row][move.from.col] = Null]
    IN  IF move.to \in Squares THEN [b2 EXCEPT ![move.to.row][move.to.col] = mover] ELSE b2

\* Some piece of the other colour attacks the king of `color` on `board`
KingAttacked(board, color) ==
    \E k \in Squares :
        /\ board[k.row][k.col].type = KING
        /\ board[k.row][k.col].color = color
        /\ \E p \in Squares :
              /\ board[p.row][p.col] # Null
              /\ board[p.row][p.col].color # color
              /\ canPieceAttackPosition(board[p.row][p.col], p, k, board)

\* C1: in every state of a game, no move that getLegalMoves returns for a
\* piece of the side to move leaves that side's king attacked on the board
\* obtained by applying the move.
C1_LegalMovesKeepKingSafe ==
    last.returned \in {"none", "state"} =>
    \A p \in OwnSquares(cur) :
        LET legalMoves == getLegalMoves(p, cur)
        IN  \A i \in 1 .. Len(legalMoves) :
                ~KingAttacked(AppliedBoard(legalMoves[i], cur.board), cur.currentTurn)

\* C1 witness: after a move of the game, a piece of the side to move has a
\* legal move while another of its candidate moves was filtered out.
C1_Witness ==
    /\ Len(cur.moveHistory) > 0
    /\ \E p \in OwnSquares(cur) :
          /\ Len(getLegalMoves(p, cur)) > 0
          /\ Len(getLegalMoves(p, cur))
               < Len(potentialMoves(p, cur.board[p.row][p.col], cur))

\* C2: a call movePiece(from, to, s) returns a state exactly when some move
\* of getLegalMoves(from, s) ends on to; in particular every move that
\* getLegalMoves returns is accepted.
C2_AcceptedIffOffered ==
    last.op = "movePiece" => (last.returned = "state" <=> last.offered)

\* C2 on the board only: for squares from and to, movePiece returns a state
\* exactly when some move of getLegalMoves(from, s) ends on to.
C2_AcceptedIffOfferedOnBoard ==
    (last.op = "movePiece" /\ last.fromInRange /\ last.toInRange)
        => (last.returned = "state" <=> last.offered)

\* A move of getLegalMoves was passed to movePiece and null came back.
C2_OfferedMoveRefused ==
    last.op = "movePiece" /\ last.offered /\ last.returned = "null"

\* C3: a successful movePiece leaves its argument as it was (board records,
\* currentTurn, moveHistory, flags), and no later movePiece call on the
\* returned state or on a state derived from it changes that argument.
C3_ArgumentUnchanged ==
    /\ last.returned = "state" => last.argAfter = last.arg
    /\ \A i \in 1 .. Len(held) : held[i].now = held[i].was

\* C3 witness: two successful calls in a row; the argument of the first has
\* lived through the second, made on the state the first returned.
C3_Witness ==
    /\ Len(held) = 2
    /\ last.returned = "state"
    /\ last.arg = held[2].was

\* C4: movePiece returns null and leaves its argument as it was when from or
\* to is off the board, when from is empty, when the piece on from is not of
\* the side to move, and when no legal move of that piece ends on to.
C4_RejectedCallReturnsNull ==
    (/\ last.op = "movePiece"
     /\ \/ ~last.fromInRange
        \/ ~last.toInRange
        \/ last.fromEmpty
        \/ ~last.ownPiece
        \/ ~last.offered)
        => (last.returned = "null" /\ last.argAfter = last.arg)

\* C4 witness: a piece of the side to move was asked to make a move it has
\* before the legality filter but that leaves its king attacked, and null
\* came back.
C4_Witness ==
    /\ last.op = "movePiece"
    /\ last.fromInRange /\ last.toInRange /\ last.ownPiece
    /\ last.candidate /\ ~last.offered
    /\ last.returned = "null"

\* C5: a successful movePiece returns a state whose currentTurn is the
\* other colour and whose moveHistory is the argument's history with exactly
\* one entry appended; so in a game begun from initGameState() currentTurn
\* is WHITE exactly when moveHistory has even length.
C5_TurnFlipsAndHistoryGrows ==
    /\ last.returned = "state" =>
          /\ cur.currentTurn # last.arg.currentTurn
          /\ cur.currentTurn \in Color
          /\ Len(cur.moveHistory) = Len(last.arg.moveHistory) + 1
          /\ SubSeq(cur.moveHistory, 1, Len(last.arg.moveHistory)) = last.arg.moveHistory
    /\ StartOf = initGameState =>
          (cur.currentTurn = WHITE <=> Len(cur.moveHistory) % 2 = 0)

\* C5 witness: the first move of a game begun from initGameState() has been
\* made and Black is to move.
C5_Witness ==
    /\ StartOf = initGameState
    /\ last.returned = "state"
    /\ Len(cur.moveHistory) = 1
    /\ cur.currentTurn = BLACK

\* C6: in a state r returned by movePiece, r.isCheck equals
\* isPlayerInCheck(r, r.currentTurn), r.isCheckmate implies r.isCheck and
\* r.isStalemate implies not r.isCheck, so the two are never both true.
C6_FlagsAgreeWithCheck ==
    last.returned = "state" =>
        /\ cur.isCheck = isPlayerInCheck(cur, cur.currentTurn)
        /\ cur.isCheckmate => cur.isCheck
        /\ cur.isStalemate => ~cur.isCheck
        /\ ~(cur.isCheckmate /\ cur.isStalemate)

\* C6 witness: movePiece has returned a state in which the side to move is
\* in check and flagged as checkmated.
C6_Witness ==
    /\ last.returned = "state"
    /\ isPlayerInCheck(cur, cur.currentTurn)
    /\ cur.isCheck
    /\ cur.isCheckmate

\* Exactly one king of each colour stands on the board
OneKingEach(board) ==
    \A color \in Color : Cardinality(KingSquares(board, color)) = 1

\* No piece of the side to move has a legal move
NoLegalMoves(gameState) ==
    \A p \in OwnSquares(gameState) : getLegalMoves(p, gameState) = <<>>

\* C7: in a state r returned by movePiece from a state with one king of
\* each colour, r.isCheckmate is true exactly when the king of the side to
\* move is attacked and no piece of that side has a legal move.
C7_CheckmateIffAttackedAndStuck ==
    (last.returned = "state" /\ OneKingEach(last.arg.board)) =>
        (cur.isCheckmate <=>
            (KingAttacked(cur.board, cur.currentTurn) /\ NoLegalMoves(cur)))

\* A returned state flagged as checkmate although a piece of the side to
\* move has a legal move.
C7_CheckmateWithLegalMove ==
    /\ last.returned = "state"
    /\ OneKingEach(last.arg.board)
    /\ cur.isCheckmate
    /\ ~NoLegalMoves(cur)

\* C7, one direction: a returned state in which the king of the side to
\* move is attacked and no piece of that side has a legal move is flagged
\* as checkmate.
C7_AttackedAndStuckIsCheckmate ==
    (last.returned = "state" /\ OneKingEach(last.arg.board)
     /\ KingAttacked(cur.board, cur.currentTurn) /\ NoLegalMoves(cur))
        => cur.isCheckmate

\* C8: in a state r returned by movePiece, r.isStalemate is true exactly
\* when the king of the side to move is not attacked and no piece of that
\* side has a legal move.
C8_StalemateIffSafeAndStuck ==
    last.returned = "state" =>
        (cur.isStalemate <=>
            (~KingAttacked(cur.board, cur.currentTurn) /\ NoLegalMoves(cur)))

\* C8 witness: movePiece has returned a state in which the king of the side
\* to move is not attacked, that side has pieces and none of them has a
\* legal move.
C8_Witness ==
    /\ last.returned = "state"
    /\ OwnSquares(cur) # {}
    /\ ~KingAttacked(cur.board, cur.currentTurn)
    /\ NoLegalMoves(cur)
    /\ cur.isStalemate

\* The board that holds only a black king on h8, a white queen on f7 and a
\* white rook on the given square
KingQueenRookBoard(rookSquare) ==
    [EmptyBoard EXCEPT ![0][7] = Piece(KING, BLACK, "undefined"),
                       ![1][5] = Piece(QUEEN, WHITE, "undefined"),
                       ![rookSquare.row][rookSquare.col] = Piece(ROOK, WHITE, "undefined")]

\* The status of Black was asked for on that board with Black to move
AskedOnKingQueenRook(rookSquare) ==
    /\ last.op = "status"
    /\ last.color = BLACK
    /\ last.arg.currentTurn = BLACK
    /\ last.arg.board = KingQueenRookBoard(rookSquare)

EnPassantApplied ==
    last.returned = "state" /\ last.move.special = "en-passant"

\* C10: when movePiece applies a move tagged en-passant, the returned board
\* has the capturing pawn on the destination and the origin empty; the
\* opposing pawn is gone from capturedPiecePosition, the square beside the
\* origin in the destination's column, and nothing was taken from the
\* destination; the appended history entry is tagged en-passant and records
\* that pawn as captured.
C10_EnPassantRemovesPawnBesideOrigin ==
    EnPassantApplied =>
        LET from == last.from
            to == last.to
            victimSquare == last.move.capturedPiecePosition
            before == last.arg.board
            mover == before[from.row][from.col]
            victim == before[victimSquare.row][victimSquare.col]
            entry == cur.moveHistory[Len(cur.moveHistory)]
        IN  /\ victimSquare = Pos(to.col, from.row)
            /\ victimSquare # to
            /\ mover.type = PAWN
            /\ victim.type = PAWN /\ victim.color = OtherColor(mover.color)
            /\ before[to.row][to.col] = Null
            /\ cur.board[to.row][to.col].type = PAWN
            /\ cur.board[to.row][to.col].color = mover.color
            /\ cur.board[from.row][from.col] = Null
            /\ cur.board[victimSquare.row][victimSquare.col] = Null
            /\ entry.special = "en-passant"
            /\ entry.captured = victim
            /\ entry.from = from /\ entry.to = to

\* C10 witness: movePiece has applied an en-passant capture.
C10_Witness ==
    /\ EnPassantApplied
    /\ cur.board[last.to.row][last.to.col].type = PAWN

\* The elements of a sequence
Range(seq) == {seq[i] : i \in 1 .. Len(seq)}

\* The en-passant captures getLegalMoves offers in a state
EnPassantOffers(gameState) ==
    {move \in UNION {Range(getLegalMoves(p, gameState)) : p \in OwnSquares(gameState)} :
        move.special = "en-passant"}

\* C11: in every state of a game, a move tagged en-passant is offered only
\* when the last move of the history is a two-square advance of an opposing
\* pawn P; P still stands where it landed and is the piece the move
\* captures, and the capturing piece is a pawn of the side to move on P's
\* row in an adjacent column.  Hence after any further move, which is then
\* the last of the history, the capture of P is no longer offered.
C11_EnPassantOnlyRightAfterAdvance ==
    last.returned \in {"none", "state"} =>
    \A move \in EnPassantOffers(cur) :
        /\ Len(cur.moveHistory) > 0
        /\ LET lastMove == cur.moveHistory[Len(cur.moveHistory)]
               capturer == cur.board[move.from.row][move.from.col]
               victim == cur.board[lastMove.to.row][lastMove.to.col]
           IN  /\ lastMove.piece.type = PAWN
               /\ lastMove.special = "two-square-advance"
               /\ Abs(lastMove.to.row - lastMove.from.row) = 2
               /\ lastMove.to.col = lastMove.from.col
               /\ lastMove.piece.color = OtherColor(cur.currentTurn)
               /\ victim.type = PAWN /\ victim.color = lastMove.piece.color
               /\ move.capturedPiecePosition = lastMove.to
               /\ capturer.type = PAWN /\ capturer.color = cur.currentTurn
               /\ move.from.row = lastMove.to.row
               /\ Abs(move.from.col - lastMove.to.col) = 1
               /\ move.to.col = lastMove.to.col
               /\ move.to.row = (lastMove.from.row + lastMove.to.row) \div 2

\* C11 witness: right after a two-square advance an en-passant capture is
\* offered to a pawn beside the advanced pawn.
C11_Witness ==
    /\ last.returned = "state"
    /\ last.move.special = "two-square-advance"
    /\ EnPassantOffers(cur) # {}

\* C11 witness of the later state: a pawn advanced two squares beside an
\* opposing pawn, a further move was played, and no en-passant capture is
\* offered.
C11_WitnessAfterFurtherMove ==
    /\ Len(cur.moveHistory) >= 2
    /\ cur.moveHistory[Len(cur.moveHistory) - 1].special = "two-square-advance"
    /\ EnPassantOffers(held[Len(held)].was) # {}
    /\ EnPassantOffers(cur) = {}

\* The row a pawn of `color` promotes on: the opponent's back rank
OpponentBackRank(color) == IF color = WHITE THEN 0 ELSE 7

\* The type C12 names for a requested promotionType
PromotedType(promotionType) ==
    IF promotionType \in {ROOK, KNIGHT, BISHOP, QUEEN} THEN promotionType ELSE QUEEN

\* The last call of movePiece moved a pawn onto the opponent's back rank
PromotionApplied ==
    /\ last.returned = "state"
    /\ last.arg.board[last.from.row][last.from.col].type = PAWN
    /\ last.to.row = OpponentBackRank(last.arg.currentTurn)

\* C12: (a) when movePiece has applied a pawn move onto the opponent's back
\* rank, the piece on the destination has the pawn's colour and the type
\* requested if that is rook, knight, bishop or queen, and is a queen if the
\* type was omitted or is king or pawn; (b) in every state, each move of a
\* pawn onto the opponent's back rank that getLegalMoves offers is applied by
\* movePiece with that outcome whatever promotionType is passed.
C12_PromotionTypeOrQueen ==
    /\ PromotionApplied =>
          LET placed == cur.board[last.to.row][last.to.col]
          IN  /\ placed.type = PromotedType(last.promotionType)
              /\ placed.color = last.arg.currentTurn
    /\ \A p \in OwnSquares(cur) :
          cur.board[p.row][p.col].type = PAWN =>
              \A move \in Range(getLegalMoves(p, cur)) :
                  move.to.row = OpponentBackRank(cur.currentTurn) =>
                      \A promotionType \in PromotionInputs :
                          LET r == movePiece(p, move.to, cur, promotionType, FALSE)
                          IN  /\ r # NullState
                              /\ r.board[move.to.row][move.to.col].type
                                     = PromotedType(promotionType)
                              /\ r.board[move.to.row][move.to.col].color
                                     = cur.currentTurn

\* C12 witness: movePiece has promoted a pawn that was asked to become a
\* king, and a queen stands on the destination.
C12_Witness ==
    /\ PromotionApplied
    /\ last.promotionType = KING
    /\ cur.board[last.to.row][last.to.col].type = QUEEN

\* C12 witness of a valid request: a pawn promoted to the knight asked for.
C12_WitnessKnight ==
    /\ PromotionApplied
    /\ last.promotionType = KNIGHT
    /\ cur.board[last.to.row][last.to.col].type = KNIGHT

\* The last call of movePiece applied a move tagged castling
CastlingApplied ==
    last.returned = "state" /\ last.move.special = "castling"

\* The board after castling from `from` to `to` on the board `before`, as
\* C13 describes it: the king two columns from its origin toward the rook of
\* column 7 or 0, that rook on the square the king crossed, the king's
\* origin and the rook's corner empty, both pieces marked moved
CastledAsDescribed(from, to, before, after) ==
    LET direction == Sign(to.col - from.col)
        corner == Pos(IF direction = 1 THEN 7 ELSE 0, from.row)
        crossed == Pos(from.col + direction, from.row)
        king == before[from.row][from.col]
    IN  /\ to = Pos(from.col + 2 * direction, from.row)
        /\ to \in Squares
        /\ before[corner.row][corner.col].type = ROOK
        /\ after[to.row][to.col] = Piece(KING, king.color, "true")
        /\ after[crossed.row][crossed.col] = Piece(ROOK, king.color, "true")
        /\ after[from.row][from.col] = Null
        /\ after[corner.row][corner.col] = Null

\* C13: when movePiece has applied a move tagged castling that getLegalMoves
\* offered, in a game begun by initGameState or fenToGameState, the king
\* stands two columns from its origin toward the rook, the rook on the square
\* the king crossed, the king's origin and the rook's corner are empty and
\* both pieces have hasMoved = true.
C13_CastlingPlacesKingAndRook ==
    CastlingApplied =>
        CastledAsDescribed(last.from, last.to, last.arg.board, cur.board)

\* C13 for a king castling from column e (col 4)
C13_CastlingFromColumnE ==
    (CastlingApplied /\ last.from.col = 4) =>
        CastledAsDescribed(last.from, last.to, last.arg.board, cur.board)

\* A castling move applied from column e, with the board C13 describes
C13_CastledFromColumnE ==
    /\ CastlingApplied
    /\ last.from.col = 4
    /\ CastledAsDescribed(last.from, last.to, last.arg.board, cur.board)

\* A castling move applied for a king two squares from its rook: the king is
\* back on its origin and the rook is gone
C13_RookLostByCastling ==
    /\ CastlingApplied
    /\ cur.board[last.from.row][last.from.col].type = KING
    /\ cur.board[last.to.row][last.to.col] = Null
    /\ \A p \in Squares : cur.board[p.row][p.col].type # ROOK

\* The castling moves getLegalMoves offers in a state
CastlingOffers(gameState) ==
    {move \in UNION {Range(getLegalMoves(p, gameState)) : p \in OwnSquares(gameState)} :
        move.special = "castling"}

\* Some piece of another colour than `color` attacks `square` on `board`
SquareAttacked(board, square, color) ==
    \E p \in Squares :
        /\ board[p.row][p.col] # Null
        /\ board[p.row][p.col].color # color
        /\ canPieceAttackPosition(board[p.row][p.col], p, square, board)

\* The squares of the king's row strictly between columns a and b
BetweenOnRow(row, a, b) ==
    {Pos(c, row) : c \in {c \in Idx : (a < c /\ c < b) \/ (b < c /\ c < a)}}

\* C14: in every state, a move tagged castling is offered for a king only if
\* the king and the rook on column 7 (castling toward higher columns) or
\* column 0 of the king's row are there, of one colour, neither marked
\* moved; every square between them is empty; the king is not attacked; and
\* neither the square the king crosses nor its destination is attacked by a
\* piece of the other colour.
C14_CastlingOfferedOnlyIfAllowed ==
    last.returned \in {"none", "state"} =>
    \A move \in CastlingOffers(cur) :
        LET from == move.from
            board == cur.board
            king == board[from.row][from.col]
            direction == Sign(move.to.col - from.col)
            corner == Pos(IF direction = 1 THEN 7 ELSE 0, from.row)
            rook == board[corner.row][corner.col]
            crossed == Pos(from.col + direction, from.row)
        IN  /\ direction # 0
            /\ move.to = Pos(from.col + 2 * direction, from.row)
            /\ king.type = KING /\ king.color = cur.currentTurn
            /\ rook.type = ROOK /\ rook.color = king.color
            /\ king.hasMoved # "true" /\ rook.hasMoved # "true"
            /\ \A q \in BetweenOnRow(from.row, from.col, corner.col) :
                  board[q.row][q.col] = Null
            /\ ~SquareAttacked(board, from, king.color)
            /\ ~SquareAttacked(board, crossed, king.color)
            /\ ~SquareAttacked(board, move.to, king.color)

\* C14 witness: after a move of the other side, castling is offered to a
\* king on column e.
C14_Witness ==
    /\ last.returned = "state"
    /\ \E move \in CastlingOffers(cur) :
          /\ move.from.col = 4
          /\ move.to \in Squares

\* C14 witness of a refusal: king and rook unmoved with nothing between
\* them, the crossed square attacked, and no castling offered.
C14_WitnessCrossedSquareAttacked ==
    /\ Len(cur.moveHistory) > 0
    /\ cur.currentTurn = WHITE
    /\ cur.board[7][4] = Piece(KING, WHITE, "undefined")
    /\ cur.board[7][0] = Piece(ROOK, WHITE, "undefined")
    /\ \A q \in BetweenOnRow(7, 0, 4) : cur.board[q.row][q.col] = Null
    /\ ~SquareAttacked(cur.board, Pos(4, 7), WHITE)
    /\ SquareAttacked(cur.board, Pos(3, 7), WHITE)
    /\ CastlingOffers(cur) = {}

\* The row of the pieces of `color` in the standard start
HomeRow(color) == IF color = WHITE THEN 7 ELSE 0

\* A move of the king of `color` is in the history (castling is one)
KingHasMoved(moveHistory, color) ==
    \E i \in 1 .. Len(moveHistory) :
        moveHistory[i].piece.type = KING /\ moveHistory[i].piece.color = color

\* The rook that started on `corner` has moved from it or was captured on it
RookMovedOrCaptured(moveHistory, color, corner) ==
    \E i \in 1 .. Len(moveHistory) :
        \/ /\ moveHistory[i].piece.type = ROOK
           /\ moveHistory[i].piece.color = color
           /\ moveHistory[i].from = corner
        \/ /\ moveHistory[i].piece.color = OtherColor(color)
           /\ moveHistory[i].to = corner

\* C15: in every state of a game started from initGameState(), a castling
\* move is offered to a colour only if no move of its king is in the history,
\* and toward a corner only if the rook of that corner has neither moved
\* from it nor been captured on it, wherever king and rooks stand now.
C15_NoCastlingAfterKingOrRookMoved ==
    StartOf = initGameState =>
        \A move \in CastlingOffers(cur) :
            LET color == cur.currentTurn
                corner == Pos(IF move.to.col > move.from.col THEN 7 ELSE 0, HomeRow(color))
            IN  /\ move.from = Pos(4, HomeRow(color))
                /\ ~KingHasMoved(cur.moveHistory, color)
                /\ ~RookMovedOrCaptured(cur.moveHistory, color, corner)

\* King of the side to move on its first square, rook on the king's-side
\* corner, nothing between them
KingAndRookAtHome(gameState) ==
    LET row == HomeRow(gameState.currentTurn)
    IN  /\ gameState.board[row][4].type = KING
        /\ gameState.board[row][4].color = gameState.currentTurn
        /\ gameState.board[row][7].type = ROOK
        /\ gameState.board[row][7].color = gameState.currentTurn
        /\ gameState.board[row][5] = Null
        /\ gameState.board[row][6] = Null

\* C15 witness: in a game from the standard start the king of the side to
\* move has moved and stands on its first square again beside an unmoved
\* rook; castling was offered before the king moved and is not offered now.
C15_Witness ==
    /\ StartOf = initGameState
    /\ KingHasMoved(cur.moveHistory, cur.currentTurn)
    /\ KingAndRookAtHome(cur)
    /\ cur.board[HomeRow(cur.currentTurn)][7].hasMoved # "true"
    /\ \E i \in 1 .. Len(held) : CastlingOffers(held[i].was) # {}
    /\ CastlingOffers(cur) = {}

\* C15 witness for the rook: it has moved and is back on its corner.
C15_WitnessRookReturned ==
    /\ StartOf = initGameState
    /\ ~KingHasMoved(cur.moveHistory, cur.currentTurn)
    /\ RookMovedOrCaptured(cur.moveHistory, cur.currentTurn,
                           Pos(7, HomeRow(cur.currentTurn)))
    /\ KingAndRookAtHome(cur)
    /\ CastlingOffers(cur) = {}

\* C15 witness for a captured rook: the corner is empty after the capture.
C15_WitnessRookCaptured ==
    /\ StartOf = initGameState
    /\ cur.currentTurn = BLACK
    /\ ~KingHasMoved(cur.moveHistory, BLACK)
    /\ \E i \in 1 .. Len(cur.moveHistory) :
          cur.moveHistory[i].captured = Piece(ROOK, BLACK, "undefined")
    /\ cur.board[0][7] = Null
    /\ CastlingOffers(cur) = {}

\* Positions with a coordinate outside 0..7, on every side of the board
PositionsOutside ==
    {Pos(c, r) : c \in -2 .. 9, r \in -2 .. 9} \ Squares

\* C16: in every state s, getLegalMoves(p, s) is the empty list (and its
\* evaluation raises nothing) for every p outside [0,7]x[0,7], every empty
\* square p, and every square p holding a piece that is not of s.currentTurn.
C16_NoMovesOffBoardEmptyOrOtherSide ==
    /\ \A p \in PositionsOutside : getLegalMoves(p, cur) = <<>>
    /\ \A p \in Squares :
          (cur.board[p.row][p.col] = Null
           \/ cur.board[p.row][p.col].color # cur.currentTurn)
              => getLegalMoves(p, cur) = <<>>

\* C16 witness: after a move, a piece of the side that has just moved has
\* candidate moves on the board and getLegalMoves returns none for it, nor
\* for an empty square, nor for a position off the board.
C16_Witness ==
    /\ last.returned = "state"
    /\ \E p \in Squares :
          /\ cur.board[p.row][p.col] # Null
          /\ cur.board[p.row][p.col].color # cur.currentTurn
          /\ potentialMoves(p, cur.board[p.row][p.col], cur) # <<>>
          /\ getLegalMoves(p, cur) = <<>>
    /\ \E p \in Squares : cur.board[p.row][p.col] = Null /\ getLegalMoves(p, cur) = <<>>
    /\ getLegalMoves(Pos(8, 0), cur) = <<>>

\* The caller has encoded a state with gameStateToFen and decoded the text
FenOfState ==
    last.op = "gameStateToFen"

\* C17: gameStateToFen(initGameState()) is the standard starting FEN, and
\* for every state s of a game fenToGameState(gameStateToFen(s)) returns a
\* state whose board equals s.board square by square, as piece records.
C17_FenRoundTrip ==
    FenOfState =>
        /\ last.arg = initGameState => last.fen = STARTING_FEN
        /\ ~last.decoded.error
        /\ \A p \in Squares :
              last.decoded.value.board[p.row][p.col] = last.arg.board[p.row][p.col]

\* C17 without the hasMoved flag: the starting FEN is exact, and the decoded
\* board has on every square a piece of the same type and colour, or no
\* piece, as s.board.
C17_RoundTripKeepsTypeAndColor ==
    FenOfState =>
        /\ last.arg = initGameState => last.fen = STARTING_FEN
        /\ ~last.decoded.error
        /\ \A p \in Squares :
              LET decoded == last.decoded.value.board[p.row][p.col]
                  original == last.arg.board[p.row][p.col]
              IN  decoded.type = original.type /\ decoded.color = original.color

\* A state reached by movePiece was encoded and decoded; the decoded board
\* agrees in type and colour and lacks the hasMoved of a moved piece
C17_HasMovedLost ==
    /\ FenOfState
    /\ Len(last.arg.moveHistory) > 0
    /\ ~last.decoded.error
    /\ \E p \in Squares :
          /\ last.arg.board[p.row][p.col].hasMoved = "true"
          /\ last.decoded.value.board[p.row][p.col]
                 = [last.arg.board[p.row][p.col] EXCEPT !.hasMoved = "undefined"]

\* The standard start was encoded
C17_StartEncoded ==
    /\ FenOfState
    /\ last.arg = initGameState
    /\ last.fen = STARTING_FEN

\* The positions of a text where a field begins: a character that is not a
\* blank, at the start or after a blank
FieldStarts(text) ==
    {i \in 1 .. Len(text) : text[i] # " " /\ (i = 1 \/ text[i - 1] = " ")}

\* The least element of a non-empty set of integers
Least(S) == CHOOSE x \in S : \A y \in S : x <= y

\* The first field of a text that has one
FirstField(text) ==
    LET a == Least(FieldStarts(text))
        b == Least({j \in a .. Len(text) : j = Len(text) \/ text[j + 1] = " "})
    IN  SubSeq(text, a, b)

\* The number of ranks of a placement: one more than its '/' characters
RankCount(placement) ==
    Cardinality({i \in 1 .. Len(placement) : placement[i] = "/"}) + 1

\* The 1-indexed number of the rank that holds position i of a placement
RankOf(placement, i) ==
    Cardinality({j \in 1 .. i : placement[j] = "/"}) + 1

\* The characters C18 allows in a rank
RankChars ==
    {"1", "2", "3", "4", "5", "6", "7", "8",
     "p", "r", "n", "b", "q", "k", "P", "R", "N", "B", "Q", "K"}

\* The positions of a placement holding a character no rank may hold
UnrecognizedAt(placement) ==
    {i \in 1 .. Len(placement) : placement[i] \notin RankChars \cup {"/"}}

\* What fenToGameState must do with `text` by C18, given its result: raise
\* the error of the first of the three defects the text has
RaisesAsDescribed(text, result, unrecognized) ==
    IF Cardinality(FieldStarts(text)) # 6
    THEN result.error
         /\ result.message = "Invalid FEN: must have 6 space-separated parts"
    ELSE IF RankCount(FirstField(text)) # 8
    THEN result.error /\ result.message = "Invalid FEN: must have 8 rows"
    ELSE IF unrecognized # {}
    THEN /\ result.error
         /\ result.message = "Invalid FEN: unrecognized character '<c>' in row <n>"
         /\ \E i \in unrecognized :
               result.char = FirstField(text)[i] /\ result.row = RankOf(FirstField(text), i)
    ELSE TRUE

\* C18: fenToGameState raises "must have 6 space-separated parts" when the
\* text has not exactly 6 fields; else "must have 8 rows" when the placement
\* has not exactly 8 ranks; else an error naming the character and its
\* 1-indexed row when a rank holds a character that is neither a digit 1-8
\* nor one of prnbqkPRNBQK.
C18_DecodeRaisesOnMalformedText ==
    last.op = "fenToGameState" =>
        RaisesAsDescribed(last.fen, last.decoded, UnrecognizedAt(FirstField(last.fen)))

\* C18 for every unrecognized character but U+212A
C18_DecodeRaisesExceptKelvinSign ==
    last.op = "fenToGameState" =>
        RaisesAsDescribed(last.fen, last.decoded,
            {i \in UnrecognizedAt(FirstField(last.fen)) :
                FirstField(last.fen)[i] # KelvinSign})

\* A text of 6 fields and 8 ranks with U+212A in a rank was decoded into a
\* state with a white king
C18_KelvinSignDecodedAsKing ==
    /\ last.op = "fenToGameState"
    /\ ~last.decoded.error
    /\ \E i \in 1 .. Len(last.fen) : last.fen[i] = KelvinSign
    /\ \E p \in Squares : last.decoded.value.board[p.row][p.col].type = KING

\* The error naming the letter x in row 8 was raised
C18_UnrecognizedLetterInLastRow ==
    /\ last.op = "fenToGameState"
    /\ last.decoded.error
    /\ last.decoded.row = 8
    /\ last.decoded.char = "x"

\* The errors about the number of parts and of rows were raised for texts
\* of 7 fields and of 9 ranks
C18_TooManyPartsOrRows ==
    /\ last.op = "fenToGameState"
    /\ last.decoded.error
    /\ \/ /\ Cardinality(FieldStarts(last.fen)) = 7
          /\ last.decoded.message = "Invalid FEN: must have 6 space-separated parts"
       \/ /\ Cardinality(FieldStarts(last.fen)) = 6
          /\ RankCount(FirstField(last.fen)) = 9
          /\ last.decoded.message = "Invalid FEN: must have 8 rows"

\* The fields of a FEN text written by gameStateToFen
FenFields(fen) == SplitOn(fen, " ", <<>>)

\* The algebraic name of a square: file letter a-h by column, rank 8-1 by row
AlgebraicName(square) ==
    <<<<"a", "b", "c", "d", "e", "f", "g", "h">>[square.col + 1],
      <<"8", "7", "6", "5", "4", "3", "2", "1">>[square.row + 1]>>

\* The last move of the history is a pawn's two-square advance
LastMoveIsDoubleStep(moveHistory) ==
    /\ Len(moveHistory) > 0
    /\ moveHistory[Len(moveHistory)].piece.type = PAWN
    /\ moveHistory[Len(moveHistory)].special = "two-square-advance"

\* The square a move passed over: midway between its ends
SkippedSquare(entry) ==
    Pos(entry.from.col, (entry.from.row + entry.to.row) \div 2)

\* rnbqkbnr/pppppppp/8/8/4P3/8/PPPP1PPP/RNBQKBNR b KQkq e3 0 1
FenAfterE2E4 ==
    <<"r", "n", "b", "q", "k", "b", "n", "r", "/", "p", "p", "p", "p", "p", "p", "p", "p", "/", "8", "/", "8", "/", "4", "P", "3", "/", "8", "/", "P", "P", "P", "P", "1", "P", "P", "P", "/", "R", "N", "B", "Q", "K", "B", "N", "R", " ", "b", " ", "K", "Q", "k", "q", " ", "e", "3", " ", "0", " ", "1">>

\* C19: the en passant field of gameStateToFen(s) is the algebraic name of
\* the square the pawn skipped when the last entry of s.moveHistory is a pawn
\* move tagged two-square-advance, and '-' in every other state; after e2-e4
\* from the standard start the whole FEN is
\* "rnbqkbnr/pppppppp/8/8/4P3/8/PPPP1PPP/RNBQKBNR b KQkq e3 0 1".
C19_EnPassantFieldIsSkippedSquare ==
    FenOfState =>
        /\ Len(FenFields(last.fen)) = 6
        /\ FenFields(last.fen)[4] =
              IF LastMoveIsDoubleStep(last.arg.moveHistory)
              THEN AlgebraicName(SkippedSquare(
                       last.arg.moveHistory[Len(last.arg.moveHistory)]))
              ELSE <<"-">>
        /\ (/\ StartOf = initGameState
            /\ Len(last.arg.moveHistory) = 1
            /\ last.arg.moveHistory[1].from = Pos(4, 6)
            /\ last.arg.moveHistory[1].to = Pos(4, 4))
              => last.fen = FenAfterE2E4

\* C19 witness: a state whose last move is a black pawn's two-square advance
\* was encoded with the skipped square in the en passant field.
C19_Witness ==
    /\ FenOfState
    /\ LastMoveIsDoubleStep(last.arg.moveHistory)
    /\ last.arg.currentTurn = WHITE
    /\ FenFields(last.fen)[4] # <<"-">>

\* C19 witness of the example: the state after e2-e4 was encoded.
C19_WitnessE2E4 ==
    /\ FenOfState
    /\ last.fen = FenAfterE2E4

\* C19 witness of the other case: a state reached by a move that is no
\* two-square advance was encoded with '-'.
C19_WitnessNoTarget ==
    /\ FenOfState
    /\ Len(last.arg.moveHistory) > 0
    /\ ~LastMoveIsDoubleStep(last.arg.moveHistory)
    /\ FenFields(last.fen)[4] = <<"-">>

\* A history entry is a pawn move or a capture
PawnMoveOrCapture(entry) ==
    entry.piece.type = PAWN \/ entry.captured # Null

\* The number of moves at the end of the history since the most recent pawn
\* move or capture
MovesSincePawnMoveOrCapture(moveHistory) ==
    LET resets == {i \in 1 .. Len(moveHistory) : PawnMoveOrCapture(moveHistory[i])}
    IN  IF resets = {} THEN Len(moveHistory)
        ELSE Len(moveHistory) - (CHOOSE i \in resets : \A j \in resets : j <= i)

\* The decimal numeral of a number below 100
Numeral(n) ==
    LET digit == <<"0", "1", "2", "3", "4", "5", "6", "7", "8", "9">>
    IN  IF n < 10 THEN <<digit[n + 1]>> ELSE <<digit[(n \div 10) + 1], digit[(n % 10) + 1]>>

\* C20: for every state s reached from initGameState() by movePiece, the
\* halfmove clock field of gameStateToFen(s) is the number of moves at the
\* end of s.moveHistory since the most recent pawn move or capture.
C20_HalfmoveClockCountsQuietMoves ==
    (FenOfState /\ StartOf = initGameState) =>
        FenFields(last.fen)[5] = Numeral(MovesSincePawnMoveOrCapture(last.arg.moveHistory))

\* The halfmove clock field written is always 0
C20_HalfmoveClockIsZero ==
    FenOfState => FenFields(last.fen)[5] = <<"0">>

\* A state reached from the standard start by a knight move was encoded
\* with the clock 0
C20_ZeroAfterKnightMove ==
    /\ FenOfState
    /\ StartOf = initGameState
    /\ Len(last.arg.moveHistory) = 1
    /\ last.arg.moveHistory[1].piece.type = KNIGHT
    /\ FenFields(last.fen)[5] = <<"0">>

\* The ranks of a placement
RanksOf(placement) == SplitOn(placement, "/", <<>>)

\* The files a rank fills: one for each piece letter, its value for a digit
RECURSIVE SquaresOfRank(_)
SquaresOfRank(rank) ==
    IF rank = <<>> THEN 0
    ELSE (IF Head(rank) \in DOMAIN DigitValue THEN DigitValue[Head(rank)]
          ELSE IF Head(rank) \in RankChars THEN 1 ELSE 0)
         + SquaresOfRank(Tail(rank))

\* A text of 6 fields and 8 ranks of recognized characters, one of which
\* does not fill exactly 8 files
HasRankOfWrongLength(text) ==
    /\ Cardinality(FieldStarts(text)) = 6
    /\ RankCount(FirstField(text)) = 8
    /\ UnrecognizedAt(FirstField(text)) = {}
    /\ \E i \in 1 .. 8 : SquaresOfRank(RanksOf(FirstField(text))[i]) # 8

\* C21: fenToGameState rejects with an error every text whose placement has
\* a rank in which piece letters and digit runs do not total exactly 8
\* files, too few or too many.
C21_RankOfWrongLengthRejected ==
    (last.op = "fenToGameState" /\ HasRankOfWrongLength(last.fen))
        => last.decoded.error

\* A text with a rank of 2 files was decoded into a board
C21_ShortRankDecoded ==
    /\ last.op = "fenToGameState"
    /\ HasRankOfWrongLength(last.fen)
    /\ \E i \in 1 .. 8 : SquaresOfRank(RanksOf(FirstField(last.fen))[i]) = 2
    /\ ~last.decoded.error

\* A text with a rank of 9 pawns was decoded into a board with 8 of them
C21_LongRankDecoded ==
    /\ last.op = "fenToGameState"
    /\ HasRankOfWrongLength(last.fen)
    /\ \E i \in 1 .. 8 : SquaresOfRank(RanksOf(FirstField(last.fen))[i]) = 9
    /\ ~last.decoded.error
    /\ Cardinality({p \in Squares : last.decoded.value.board[p.row][p.col].type = PAWN}) = 8

\* No text of 6 fields and 8 ranks of recognized characters raises an error
C21_NoLengthCheck ==
    (/\ last.op = "fenToGameState"
     /\ Cardinality(FieldStarts(last.fen)) = 6
     /\ RankCount(FirstField(last.fen)) = 8
     /\ UnrecognizedAt(FirstField(last.fen)) = {})
        => ~last.decoded.error

\* ------------------------------------------------------------------------
\* C22 : no operation raises
\* ------------------------------------------------------------------------
\* The pairs of squares for which isPathClear is asked on a board: by
\* canPieceAttackPosition for each piece and each square a king may be found
\* on, and by canCastle for each king and the two corners of its row.
PathsRequested(board) ==
    {<<p, t>> \in {q \in Squares : board[q.row][q.col] # Null} \X Squares :
        onLineOfPiece(board[p.row][p.col], t.row - p.row, t.col - p.col)}
    \cup {<<k, Pos(c, k.row)>> :
            k \in {q \in Squares : board[q.row][q.col].type = KING}, c \in {0, 7}}

\* A rook, bishop or queen of the other side stands off every line through
\* the king of `color`
SliderOffLine(board, color) ==
    \E p \in Squares, k \in KingSquares(board, color) :
        /\ board[p.row][p.col].type \in {ROOK, BISHOP, QUEEN}
        /\ board[p.row][p.col].color = OtherColor(color)
        /\ isPathClearThrows(p, k)

\* C22: in every game and for every pair of positions, in range or not,
\* getLegalMoves, isValidMove, movePiece, isPlayerInCheck, isCheckmate and
\* isStalemate return a value: on the board of every state a game starts in
\* or movePiece returns, isPathClear is only ever asked about two
\* squares of the board on a common row, column or diagonal, a position
\* outside the board yields no moves, FALSE and null, and every call the
\* caller made has returned a value of its type.
C22_NoOperationRaises ==
    /\ last.returned \in {"none", "state"} =>
          /\ \A pair \in PathsRequested(cur.board) :
                /\ ~isPathClearThrows(pair[1], pair[2])
                /\ isPathClear(pair[1], pair[2], cur.board) \in BOOLEAN
          /\ \A from \in OutsidePositions :
                /\ getLegalMoves(from, cur) = <<>>
                /\ \A to \in ProbeSquares \cup OutsidePositions :
                      /\ ~isValidMove(from, to, cur)
                      /\ ~isValidMove(to, from, cur)
                      /\ movePiece(from, to, cur, "undefined", FALSE) = NullState
                      /\ movePiece(to, from, cur, "undefined", FALSE) = NullState
    /\ last.op = "movePiece" => last.returned \in {"state", "null"}
    /\ last.op = "status" =>
          {last.isPlayerInCheck, last.isCheckmate, last.isStalemate} \subseteq BOOLEAN

\* The three status operations have answered for a side whose king is off the
\* lines of an opposing rook, bishop or queen
C22_Witness ==
    /\ last.op = "status"
    /\ SliderOffLine(cur.board, last.color)
    /\ ~last.isPlayerInCheck

\* movePiece has returned null for a position outside the board
C22_WitnessOutside ==
    /\ last.op = "movePiece"
    /\ last.returned = "null"
    /\ ~last.fromInRange \/ ~last.toInRange
    /\ \E color \in Color : SliderOffLine(cur.board, color)

\* ------------------------------------------------------------------------
\* C23 : bounded call depth, every call returns
\* ------------------------------------------------------------------------
Running(fns) == {i \in 1 .. Len(calls) : calls[i].fn \in fns}

FunctionsCalled ==
    {"movePiece", "isValidMove", "isPlayerInCheck", "canPieceAttackPosition",
     "isCheckmate", "findAttackingPieces", "isStalemate", "updateGameStatus",
     "getLegalMoves", "getKingMoves", "canCastle", "findKingPosition",
     "getActivePieces", "getPathBetween", "isPathClear", "getPawnMoves",
     "getRookMoves", "getKnightMoves", "getBishopMoves", "getQueenMoves"}

\* C23: the calls in progress are bounded in depth: no function is running
\* twice, except movePiece once updating the status and, inside isCheckmate,
\* once skipping it; while isPlayerInCheck or canPieceAttackPosition runs,
\* neither getLegalMoves nor movePiece is called; every movePiece called
\* while isCheckmate runs was passed skipStatusUpdate = true; and
\* updateGameStatus is never running twice.
C23_CallDepthBounded ==
    /\ \A i, j \in 1 .. Len(calls) :
          (i < j /\ calls[i].fn = calls[j].fn) =>
              /\ calls[i].fn = "movePiece"
              /\ ~calls[i].skipStatusUpdate
              /\ calls[j].skipStatusUpdate
    /\ \A i \in Running({"isPlayerInCheck", "canPieceAttackPosition"}) :
          \A j \in Running({"getLegalMoves", "movePiece"}) : j < i
    /\ \A i \in Running({"isCheckmate"}) :
          \A j \in Running({"movePiece"}) : j > i => calls[j].skipStatusUpdate
    /\ Cardinality(Running({"updateGameStatus"})) <= 1
    /\ Len(calls) <= Cardinality(FunctionsCalled) + 1
    /\ \A i \in 1 .. Len(calls) : calls[i].fn \in FunctionsCalled

\* C23, termination: every operation that was started returns
C23_EveryCallReturns ==
    (calls # <<>>) ~> (calls = <<>>)

\* movePiece, updating the status, has reached isCheckmate, whose movePiece
\* skips the update and is asking whether the king is in check
C23_Witness ==
    /\ Len(calls) >= 5
    /\ calls[1].fn = "movePiece" /\ ~calls[1].skipStatusUpdate
    /\ calls[2].fn = "updateGameStatus"
    /\ calls[3].fn = "isCheckmate"
    /\ calls[4].fn = "movePiece" /\ calls[4].skipStatusUpdate
    /\ calls[Len(calls)].fn = "isPathClear"

\* The last call site of the movePiece inside isCheckmate has returned
C23_WitnessInnerMoveDone ==
    /\ Len(calls) = 4
    /\ calls[3].fn = "isCheckmate"
    /\ calls[4].fn = "movePiece"
    /\ calls[4].site = Len(callSites("movePiece", TRUE))

\* C23, both parts: every call of an operation has bounded depth as stated
\* and returns
C23_CallsBoundedAndReturn ==
    []C23_CallDepthBounded /\ C23_EveryCallReturns

\* ------------------------------------------------------------------------
\* C24 : candidate moves of bishop, rook and queen
\* ------------------------------------------------------------------------
Diagonals == {Pos(a, b) : a \in {-1, 1}, b \in {-1, 1}}
Orthogonals == {Pos(-1, 0), Pos(1, 0), Pos(0, -1), Pos(0, 1)}

SlideDirections(type) ==
    CASE type = BISHOP -> Diagonals
      [] type = ROOK -> Orthogonals
      [] type = QUEEN -> Diagonals \cup Orthogonals
      [] OTHER -> {}

\* The square k steps from p in direction d
StepsFrom(p, d, k) == Pos(p.col + k * d.col, p.row + k * d.row)

\* The squares a piece of `color` sliding from p along `directions` reaches:
\* on the board, nothing standing between p and the square, and the square
\* empty or held by the other side
SlideTargets(p, color, directions, board) ==
    UNION {{StepsFrom(p, d, k) :
                k \in {n \in 1 .. 7 :
                    /\ isValidPosition(StepsFrom(p, d, n))
                    /\ \A j \in 1 .. n - 1 : getPieceAt(StepsFrom(p, d, j), board) = Null
                    /\ getPieceAt(StepsFrom(p, d, n), board).color # color}} :
           d \in directions}

\* `moves` is exactly the slides of the piece on p: one move to each target,
\* flagged capture exactly on an occupied target
ExactSlides(p, board, moves) ==
    /\ Destinations(moves) =
          SlideTargets(p, board[p.row][p.col].color,
                       SlideDirections(board[p.row][p.col].type), board)
    /\ Len(moves) = Cardinality(Destinations(moves))
    /\ \A i \in 1 .. Len(moves) :
          /\ moves[i].from = p
          /\ moves[i].special = "undefined"
          /\ (moves[i].capture = "true") <=> (board[moves[i].to.row][moves[i].to.col] # Null)

\* The last call asked for the candidates of a bishop, rook or queen
SliderAsked ==
    /\ last.op = "candidates"
    /\ cur.board[last.from.row][last.from.col].type \in {BISHOP, ROOK, QUEEN}

\* C24: on every board the candidate moves of a bishop, rook or queen are
\* exactly: in each of its directions every empty square before the first
\* occupied one, plus that one iff it holds an opposing piece, and then
\* flagged capture; nothing beyond an occupied square or on an own piece.
C24_SlidersStopAtFirstPiece ==
    SliderAsked => ExactSlides(last.from, cur.board, last.moves)

\* A slide blocked by an own piece, one ending in a capture with a square
\* behind it, and a free one to the edge
SlidesOfEachKind(p, board) ==
    LET piece == board[p.row][p.col]
        dirs == SlideDirections(piece.type)
        firstPiece(d) ==
            {k \in 1 .. 7 :
                /\ getPieceAt(StepsFrom(p, d, k), board) # Null
                /\ \A j \in 1 .. k - 1 : getPieceAt(StepsFrom(p, d, j), board) = Null}
    IN  /\ \E d \in dirs : \E k \in firstPiece(d) :
              k > 1 /\ getPieceAt(StepsFrom(p, d, k), board).color = piece.color
        /\ \E d \in dirs : \E k \in firstPiece(d) :
              /\ k > 1 /\ k < 7
              /\ getPieceAt(StepsFrom(p, d, k), board).color # piece.color
              /\ isValidPosition(StepsFrom(p, d, k + 1))
        /\ \E d \in dirs : firstPiece(d) = {} /\ isValidPosition(StepsFrom(p, d, 1))

C24_Witness ==
    /\ SliderAsked
    /\ cur.board[last.from.row][last.from.col].type = QUEEN
    /\ SlidesOfEachKind(last.from, cur.board)

C24_WitnessBishop ==
    /\ SliderAsked
    /\ cur.board[last.from.row][last.from.col].type = BISHOP
    /\ SlidesOfEachKind(last.from, cur.board)

C24_WitnessRook ==
    /\ SliderAsked
    /\ cur.board[last.from.row][last.from.col].type = ROOK
    /\ SlidesOfEachKind(last.from, cur.board)

\* ------------------------------------------------------------------------
\* C25 : candidate moves of a pawn
\* ------------------------------------------------------------------------
Forward(color) == IF color = WHITE THEN -1 ELSE 1
StartingRank(color) == IF color = WHITE THEN 6 ELSE 1

EmptySquare(p, board) == p \in Squares /\ board[p.row][p.col] = Null

\* The moves of `moves` that end on `to` and are not en-passant captures
OrdinaryMovesTo(to, moves) ==
    {i \in 1 .. Len(moves) : moves[i].to = to /\ moves[i].special # "en-passant"}

\* `moves` are the candidate moves the claim describes for the pawn on p
PawnMovesAsDescribed(p, board, moves) ==
    LET color == board[p.row][p.col].color
        ahead == Pos(p.col, p.row + Forward(color))
        twoAhead == Pos(p.col, p.row + 2 * Forward(color))
        diagonals == {Pos(p.col - 1, p.row + Forward(color)),
                      Pos(p.col + 1, p.row + Forward(color))}
    IN  /\ OrdinaryMovesTo(ahead, moves) # {} <=> EmptySquare(ahead, board)
        /\ OrdinaryMovesTo(twoAhead, moves) # {} <=>
              /\ p.row = StartingRank(color)
              /\ EmptySquare(ahead, board)
              /\ EmptySquare(twoAhead, board)
        /\ \A i \in 1 .. Len(moves) :
              (moves[i].special = "two-square-advance") <=> (moves[i].to = twoAhead)
        /\ \A d \in diagonals :
              OrdinaryMovesTo(d, moves) # {} <=>
                  /\ d \in Squares
                  /\ board[d.row][d.col] # Null
                  /\ board[d.row][d.col].color # color
        /\ \A i \in 1 .. Len(moves) :
              /\ moves[i].from = p
              /\ moves[i].to \in {ahead, twoAhead} \cup diagonals
              /\ moves[i].to.col = p.col =>
                    moves[i].capture # "true" /\ EmptySquare(moves[i].to, board)
              /\ (moves[i].to.row - p.row) * Forward(color) > 0

\* Squares on which a pawn of either colour is put down
PawnProbes == {Pos(4, 6), Pos(3, 1), Pos(2, 4), Pos(7, 5)}

PawnBoards(board) ==
    {board} \cup
    {placePiece(board, p, Piece(PAWN, c, "undefined")) : p \in PawnProbes, c \in Color}

PawnSquares(board) ==
    {p \in Squares : board[p.row][p.col].type = PAWN}

\* C25: on the board of every state a game starts in or movePiece returns,
\* and on that board with a pawn put on a probe square, each pawn has a
\* one-step candidate iff the square ahead is empty, a two-step candidate
\* (tagged two-square-advance) iff it is on its starting rank and both squares
\* are empty, an ordinary diagonal candidate iff that square holds an opposing
\* piece; it never captures straight ahead and never moves backward.
C25_PawnCandidates ==
    last.returned \in {"none", "state"} =>
        \A board \in PawnBoards(cur.board) :
            \A p \in PawnSquares(board) :
                PawnMovesAsDescribed(p, board,
                    getPawnMoves(p, [cur EXCEPT !.board = board]))

\* The cases of the claim: a pawn on its starting rank whose two-step is
\* stopped by a piece on the square ahead (1), by a piece on the destination
\* (2), or by nothing (3); a pawn with an opposing piece on a diagonal (4);
\* a pawn with an opposing piece straight ahead (5)
PawnCase(n, p, board) ==
    LET color == board[p.row][p.col].color
        at(dc, k) == getPieceAt(Pos(p.col + dc, p.row + k * Forward(color)), board)
    IN  CASE n = 1 -> p.row = StartingRank(color) /\ at(0, 1) # Null
          [] n = 2 -> p.row = StartingRank(color) /\ at(0, 1) = Null /\ at(0, 2) # Null
          [] n = 3 -> p.row = StartingRank(color) /\ at(0, 1) = Null /\ at(0, 2) = Null
          [] n = 4 -> at(1, 1) # Null /\ at(1, 1).color # color
          [] n = 5 -> at(0, 1) # Null /\ at(0, 1).color # color

\* Each case occurs on a board of the state movePiece has returned
C25_Witness ==
    /\ last.returned = "state"
    /\ \A n \in 1 .. 5 :
          \E board \in PawnBoards(cur.board) :
              \E p \in PawnSquares(board) : PawnCase(n, p, board)

\* ------------------------------------------------------------------------
\* C26 : no pawn on a back rank
\* ------------------------------------------------------------------------
PawnsOnBackRanks(board) ==
    {p \in Squares : p.row \in {0, 7} /\ board[p.row][p.col].type = PAWN}

\* The last call was a successful movePiece of a pawn onto row 0 or row 7
PawnReachedBackRank ==
    /\ last.returned = "state"
    /\ last.arg.board[last.from.row][last.from.col].type = PAWN
    /\ last.to.row \in {0, 7}

\* C26: in every state reached by movePiece from initGameState() (and from
\* any other start without a pawn on row 0 or 7) no pawn stands on row 0 or
\* row 7, and a pawn move that lands there, forward or capturing, is tagged
\* promotion and leaves a rook, knight, bishop or queen of the mover's colour
\* on the destination.
C26_NoPawnOnBackRank ==
    PawnsOnBackRanks(StartOf.board) = {} =>
        /\ PawnsOnBackRanks(cur.board) = {}
        /\ PawnReachedBackRank =>
              /\ last.move.special = "promotion"
              /\ cur.board[last.to.row][last.to.col].type \in ValidPromotionTypes
              /\ cur.board[last.to.row][last.to.col].color = last.arg.currentTurn

\* From initGameState() a pawn has reached the back rank by a forward move
C26_Witness ==
    /\ StartOf = initGameState
    /\ PawnReachedBackRank
    /\ last.move.capture # "true"

\* From initGameState() a pawn has reached the back rank by a capture
C26_WitnessCapture ==
    /\ StartOf = initGameState
    /\ PawnReachedBackRank
    /\ last.move.capture = "true"

\* A pawn has reached the back rank with promotionType = pawn passed
C26_WitnessPawnRequested ==
    /\ PawnReachedBackRank
    /\ last.promotionType = PAWN

\* ------------------------------------------------------------------------
\* C27 : the attack predicate agrees with the move generators
\* ------------------------------------------------------------------------
\* The squares holding a piece of the other colour on which a move of `moves`
\* ends that is neither castling nor en passant
CapturedSquares(color, board, moves) ==
    {to \in Squares :
        /\ board[to.row][to.col] # Null
        /\ board[to.row][to.col].color # color
        /\ \E i \in 1 .. Len(moves) :
              moves[i].to = to /\ moves[i].special \notin {"castling", "en-passant"}}

\* C27: on every board, for every piece P on a square A and every square B
\* holding a piece of the other colour, canPieceAttackPosition(P, A, B, board)
\* is true iff P's generator from A yields a move ending on B that is neither
\* castling nor en passant.
C27_AttackAgreesWithGenerators ==
    last.op = "candidates" =>
        last.attacked =
            CapturedSquares(cur.board[last.from.row][last.from.col].color,
                            cur.board, last.moves)

\* A queen has been asked that attacks some opposing piece and stands on a
\* line with another one it does not attack; likewise a pawn, a knight and
\* a king that attack an opposing piece
C27_Witness ==
    /\ last.op = "candidates"
    /\ cur.board[last.from.row][last.from.col].type = QUEEN
    /\ last.attacked # {}
    /\ \E to \in Squares :
          /\ cur.board[to.row][to.col] # Null
          /\ cur.board[to.row][to.col].color # cur.board[last.from.row][last.from.col].color
          /\ ~isPathClearThrows(last.from, to)
          /\ to \notin last.attacked

C27_WitnessPawn ==
    /\ last.op = "candidates"
    /\ cur.board[last.from.row][last.from.col].type = PAWN
    /\ last.attacked # {}

C27_WitnessKnight ==
    /\ last.op = "candidates"
    /\ cur.board[last.from.row][last.from.col].type = KNIGHT
    /\ last.attacked # {}

C27_WitnessKing ==
    /\ last.op = "candidates"
    /\ cur.board[last.from.row][last.from.col].type = KING
    /\ last.attacked # {}

\* ------------------------------------------------------------------------
\* C28 : isPathClear
\* ------------------------------------------------------------------------
\* The squares on a common row, column or diagonal with `from`
Aligned(from) ==
    {to \in Squares :
        \/ to.row = from.row
        \/ to.col = from.col
        \/ Abs(to.col - from.col) = Abs(to.row - from.row)}

\* The squares strictly between two aligned squares
StrictlyBetween(from, to) ==
    LET d == Pos(Sign(to.col - from.col), Sign(to.row - from.row))
        n == IF Abs(to.col - from.col) > Abs(to.row - from.row)
             THEN Abs(to.col - from.col) ELSE Abs(to.row - from.row)
    IN  {StepsFrom(from, d, k) : k \in 1 .. n - 1}

\* What may stand on from and to
Occupants == {Null, Piece(PAWN, WHITE, "true"), Piece(QUEEN, BLACK, "undefined")}

\* C28: for in-range squares from and to on a common row, column or
\* diagonal, isPathClear(from, to, board) is true iff every square strictly
\* between them is empty; what stands on from and on to does not change the
\* result, and the result is true when from = to.
C28_PathClearIffBetweenEmpty ==
    last.op = "isPathClear" =>
        /\ last.clear \subseteq Aligned(last.from)
        /\ last.from \in last.clear
        /\ \A to \in Aligned(last.from) :
              /\ to \in last.clear <=>
                    \A s \in StrictlyBetween(last.from, to) : cur.board[s.row][s.col] = Null
              /\ \A x, y \in Occupants :
                    isPathClear(last.from, to,
                        placePiece(placePiece(cur.board, to, y), last.from, x))
                    = (to \in last.clear)

\* isPathClear has answered for a square with an occupied target behind empty
\* squares (clear), a target behind a piece (not clear) and from itself
C28_Witness ==
    /\ last.op = "isPathClear"
    /\ cur.board[last.from.row][last.from.col] # Null
    /\ \E to \in last.clear :
          /\ cur.board[to.row][to.col] # Null
          /\ StrictlyBetween(last.from, to) # {}
    /\ \E to \in Aligned(last.from) \ last.clear :
          cur.board[to.row][to.col] = Null

\* ------------------------------------------------------------------------
\* C29 : one king of each colour
\* ------------------------------------------------------------------------
\* A game started with one king of each colour and the side not to move not
\* in check, as initGameState() does
StartedSound ==
    /\ OneKingEach(StartOf.board)
    /\ ~KingAttacked(StartOf.board, OtherColor(StartOf.currentTurn))

\* The squares a legal move of the side to move ends on
LegalDestinations(gameState) ==
    UNION {Destinations(getLegalMoves(p, gameState)) : p \in OwnSquares(gameState)}

\* C29: every state reached by movePiece from initGameState() (and from any
\* other start with one king each and the side not to move not in check) has
\* exactly one white and one black king; the side not to move is not in
\* check, no legal move ends on a king's square and no move made has captured
\* a king.
C29_OneKingEach ==
    StartedSound =>
        /\ OneKingEach(cur.board)
        /\ last.returned \in {"none", "state"} =>
              /\ ~KingAttacked(cur.board, OtherColor(cur.currentTurn))
              /\ \A p \in LegalDestinations(cur) : getPieceAt(p, cur.board).type # KING
        /\ \A i \in 1 .. Len(cur.moveHistory) :
              cur.moveHistory[i].captured.type # KING

\* From initGameState() a capture has been made
C29_Witness ==
    /\ StartOf = initGameState
    /\ last.returned = "state"
    /\ last.move.capture = "true"
    /\ OneKingEach(cur.board)

\* A move has given check: the king of the side to move is attacked
C29_WitnessCheck ==
    /\ StartedSound
    /\ last.returned = "state"
    /\ KingAttacked(cur.board, cur.currentTurn)

\* ------------------------------------------------------------------------
\* C30 : the squares a move changes
\* ------------------------------------------------------------------------
PieceCount(board) == Cardinality({p \in Squares : board[p.row][p.col] # Null})

\* The squares the claim lets a move change
SquaresOfMove(from, to, move) ==
    {from, to}
    \cup (IF move.special = "en-passant" THEN {move.capturedPiecePosition} ELSE {})
    \cup (IF move.special = "castling"
          THEN IF to.col > from.col THEN {Pos(7, from.row), Pos(5, from.row)}
               ELSE {Pos(0, from.row), Pos(3, from.row)}
          ELSE {})

\* The returned board differs from the argument's only on the move's squares
OnlyMoveSquaresChanged ==
    \A p \in Squares \ SquaresOfMove(last.from, last.to, last.move) :
        cur.board[p.row][p.col] = last.arg.board[p.row][p.col]

\* C30: a successful movePiece(from, to, s) changes only from, to, the
\* en-passant victim's square and the castling rook's origin and
\* destination; the number of pieces drops by exactly one for a capturing
\* move and is unchanged otherwise.
C30_MoveChangesOnlyItsSquares ==
    last.returned = "state" =>
        /\ OnlyMoveSquaresChanged
        /\ PieceCount(cur.board) =
              PieceCount(last.arg.board) - (IF last.move.capture = "true" THEN 1 ELSE 0)

\* A castling move, not a capture, after which a piece is missing
C30_PieceLostByCastling ==
    /\ last.returned = "state"
    /\ last.move.special = "castling"
    /\ last.move.capture # "true"
    /\ PieceCount(cur.board) = PieceCount(last.arg.board) - 1

\* C30 for every move but a castling that ends on the king's own rook
C30_ExceptCastlingOntoRook ==
    (last.returned = "state" /\ ~C30_PieceLostByCastling) =>
        /\ OnlyMoveSquaresChanged
        /\ PieceCount(cur.board) =
              PieceCount(last.arg.board) - (IF last.move.capture = "true" THEN 1 ELSE 0)

\* Moves of each kind have been made: en passant, castling, promotion, capture
C30_WitnessEnPassant ==
    last.returned = "state" /\ last.move.special = "en-passant"

C30_WitnessCastling ==
    /\ last.returned = "state"
    /\ last.move.special = "castling"
    /\ PieceCount(cur.board) = PieceCount(last.arg.board)

\* ------------------------------------------------------------------------
\* C31 : the history entry of a move
\* ------------------------------------------------------------------------
\* The entry the last successful movePiece appended
LastEntry == cur.moveHistory[Len(cur.moveHistory)]

\* The entry records the piece as it stood on `from` before the move, and
\* promotedTo only for a promotion
EntryRecordsMover ==
    /\ LastEntry.from = last.from
    /\ LastEntry.to = last.to
    /\ LastEntry.piece = last.arg.board[last.from.row][last.from.col]
    /\ last.move.special # "promotion" => LastEntry.promotedTo = "undefined"

\* C31: the history entry appended by movePiece records the piece as it was
\* before the move and, for a promotion, a promotedTo equal to the type of
\* the piece placed on the destination square, whatever promotionType was
\* requested; promotedTo is absent for the other moves.
C31_HistoryRecordsPlacedType ==
    last.returned = "state" =>
        /\ EntryRecordsMover
        /\ last.move.special = "promotion" =>
              LastEntry.promotedTo = cur.board[last.to.row][last.to.col].type

\* A promotion whose entry names another type than the piece placed
C31_PromotedToDiffersFromPiece ==
    /\ last.returned = "state"
    /\ last.move.special = "promotion"
    /\ LastEntry.promotedTo # cur.board[last.to.row][last.to.col].type

\* C31 holds when the requested promotionType is omitted or is one of rook,
\* knight, bishop, queen; for any other promotionType the entry names that
\* type and the piece placed is a queen.
C31_ExceptInvalidType ==
    last.returned = "state" =>
        /\ EntryRecordsMover
        /\ last.move.special = "promotion" =>
              IF last.promotionType \in ValidPromotionTypes \cup {"undefined"}
              THEN LastEntry.promotedTo = cur.board[last.to.row][last.to.col].type
              ELSE /\ LastEntry.promotedTo = last.promotionType
                   /\ cur.board[last.to.row][last.to.col].type = QUEEN

\* ------------------------------------------------------------------------
\* C32 : movePiece does not read the status flags of its argument
\* ------------------------------------------------------------------------
\* gameState with its three flags replaced
Flagged(gameState, check, checkmate, stalemate) ==
    [gameState EXCEPT !.isCheck = check,
                      !.isCheckmate = checkmate,
                      !.isStalemate = stalemate]

\* The flags updateGameStatus can leave: none, check, check and checkmate,
\* stalemate
FlagInputs == {<<FALSE, FALSE, FALSE>>, <<TRUE, FALSE, FALSE>>,
               <<TRUE, TRUE, FALSE>>, <<FALSE, FALSE, TRUE>>}

\* The states that differ from gameState in the flags only
FlagVariants(gameState) ==
    {Flagged(gameState, f[1], f[2], f[3]) : f \in FlagInputs} \ {gameState}

\* gameState flagged the other way: cleared if a flag is set, flagged as
\* checkmate if none is
Unlike(gameState) ==
    IF gameState.isCheck \/ gameState.isCheckmate \/ gameState.isStalemate
    THEN Flagged(gameState, FALSE, FALSE, FALSE)
    ELSE Flagged(gameState, TRUE, TRUE, FALSE)

\* movePiece(from, to, .) gives `result` for every flag variant of gameState
SameForVariants(from, to, gameState, promotionType, skipStatusUpdate, result) ==
    \A other \in FlagVariants(gameState) :
        movePiece(from, to, other, promotionType, skipStatusUpdate) = result

\* The from squares tried on a state: its king of the side to move, a piece
\* of the other side or an empty square, and a position beyond the edge
FlagProbes(gameState) ==
    (KingSquares(gameState.board, gameState.currentTurn) \cap Squares)
    \cup ProbeSquares \cup {Pos(8, 7)}

\* The to squares tried with `from`: every candidate of a piece and a probe
\* square
FlagTargets(from, gameState) ==
    (IF from \in Squares /\ gameState.board[from.row][from.col] # Null
     THEN Destinations(potentialMoves(from, gameState.board[from.row][from.col],
                                      gameState))
     ELSE {})
    \cup {Pos(2, 4)}

\* C32: for two states with the same board, currentTurn and moveHistory that
\* differ only in isCheck, isCheckmate or isStalemate, movePiece(from, to, .)
\* returns null for both or equal states for both; a state flagged as
\* terminal is not refused for that reason.  (The move just played is
\* replayed on the argument flagged the other way, and on every flag variant
\* with the status update skipped; on the start states and
\* on the states returned with a flag set the king's candidates, the probe
\* squares and a position beyond the edge are tried with the status update
\* skipped.)
C32_FlagsNotConsulted ==
    /\ last.returned = "state" =>
          /\ movePiece(last.from, last.to, Unlike(last.arg), last.promotionType,
                       FALSE) = cur
          /\ SameForVariants(last.from, last.to, last.arg, last.promotionType,
                             TRUE, Flagged(cur, FALSE, FALSE, FALSE))
    /\ (last.returned = "none"
        \/ (last.returned = "state" /\ (cur.isCheck \/ cur.isStalemate))) =>
          \A from \in FlagProbes(cur) :
              \A to \in FlagTargets(from, cur) :
                  SameForVariants(from, to, cur, "undefined", TRUE,
                                  movePiece(from, to, cur, "undefined", TRUE))

\* A move played from a state flagged as check, which the same call on the
\* state with its flags cleared gives too
C32_Witness ==
    /\ last.returned = "state"
    /\ last.arg.isCheck
    /\ movePiece(last.from, last.to, Flagged(last.arg, FALSE, FALSE, FALSE),
                 last.promotionType, FALSE) = cur

\* A move played from a state flagged as checkmate
C32_WitnessTerminal ==
    /\ last.returned = "state"
    /\ last.arg.isCheckmate \/ last.arg.isStalemate

\* ------------------------------------------------------------------------
\* C33 : states flagged as checkmate or stalemate
\* ------------------------------------------------------------------------
\* The last call of movePiece was made on a state flagged as terminal (such
\* a state comes from movePiece: the decoded and initial states are not
\* flagged)
CalledOnTerminal ==
    /\ last.op = "movePiece"
    /\ last.arg.isCheckmate \/ last.arg.isStalemate

\* C33: terminal states are absorbing: on a state r returned by movePiece
\* with r.isCheckmate or r.isStalemate true, movePiece(from, to, r) returns
\* null for every pair of squares.
C33_TerminalAbsorbing ==
    CalledOnTerminal => last.returned = "null"

\* A state returned by movePiece from a state flagged as checkmate
C33_MovePlayedAfterCheckmate ==
    /\ CalledOnTerminal
    /\ last.returned = "state"
    /\ last.arg.isCheckmate
    /\ Len(last.arg.moveHistory) > 0

\* C33 holds for the states flagged as stalemate, and on a state flagged as
\* checkmate the only moves accepted are en-passant captures.
C33_ExceptEnPassantOutOfCheck ==
    CalledOnTerminal /\ last.returned = "state" =>
        /\ ~last.arg.isStalemate
        /\ last.move.special = "en-passant"

\* A call on a state flagged as stalemate, which returned null
C33_WitnessStalemate ==
    /\ CalledOnTerminal
    /\ last.arg.isStalemate
    /\ last.returned = "null"

\* ------------------------------------------------------------------------
\* C34 : the status functions and the side to move
\* ------------------------------------------------------------------------
\* gameState with `color` to move
WithTurn(gameState, color) == [gameState EXCEPT !.currentTurn = color]

\* C34: isCheckmate(s, c) and isStalemate(s, c) depend only on the board,
\* the move history and c, not on whose turn s records: for two states that
\* differ only in currentTurn each function returns the same value for the
\* same c.
C34_StatusIgnoresTurn ==
    last.op = "status" =>
        \A turn \in Color :
            /\ isStalemate(WithTurn(last.arg, turn), last.color) = last.isStalemate
            /\ isCheckmate(WithTurn(last.arg, turn), last.color) = last.isCheckmate

\* isStalemate(initGameState(), BLACK) is true, and false once black is to move
C34_StalemateOffTurn ==
    /\ last.op = "status"
    /\ last.arg = initGameState
    /\ last.color = BLACK
    /\ last.isStalemate
    /\ ~isStalemate(WithTurn(last.arg, BLACK), BLACK)

\* isPlayerInCheck does not depend on currentTurn, and for a color that is
\* not to move isStalemate says "not in check" and isCheckmate "in check"
C34_OffTurnAnswers ==
    last.op = "status" =>
        /\ \A turn \in Color :
              isPlayerInCheck(WithTurn(last.arg, turn), last.color)
                  = last.isPlayerInCheck
        /\ last.color # last.arg.currentTurn =>
              /\ last.isStalemate = ~last.isPlayerInCheck
              /\ last.isCheckmate = last.isPlayerInCheck

\* isCheckmate differs with the side to move
C34_CheckmateOffTurn ==
    /\ last.op = "status"
    /\ last.isPlayerInCheck
    /\ ~last.isCheckmate
    /\ isCheckmate(WithTurn(last.arg, OtherColor(last.color)), last.color)

\* ------------------------------------------------------------------------
\* C35 : what can be played after exporting and re-importing
\* ------------------------------------------------------------------------
\* The squares where the legal destinations of s and t differ
DestinationsDiffer(s, t) ==
    {p \in Squares :
        Destinations(getLegalMoves(p, s)) # Destinations(getLegalMoves(p, t))}

\* A state was exported and the text decoded
Exported ==
    /\ last.op = "gameStateToFen"
    /\ ~last.decoded.error

\* The state exported was reached from initGameState() by movePiece
ExportedFromGame ==
    /\ Exported
    /\ StartOf = initGameState

\* C35: for every state s reachable from initGameState() by movePiece,
\* t = fenToGameState(gameStateToFen(s)) has the same side to move and, for
\* every square p, getLegalMoves(p, t) and getLegalMoves(p, s) contain moves
\* to the same destinations, castling and en-passant moves included.
C35_RoundTripKeepsLegalMoves ==
    ExportedFromGame =>
        /\ last.decoded.value.currentTurn = last.arg.currentTurn
        /\ DestinationsDiffer(last.arg, last.decoded.value) = {}

\* After a king has moved and come back, the re-imported state offers a
\* castling move the exported state does not have
C35_CastlingGained ==
    /\ ExportedFromGame
    /\ \E p \in DestinationsDiffer(last.arg, last.decoded.value) :
          /\ last.arg.board[p.row][p.col].type = KING
          /\ \E i \in 1 .. Len(getLegalMoves(p, last.decoded.value)) :
                getLegalMoves(p, last.decoded.value)[i].special = "castling"

\* The side to move is kept, the board differs in hasMoved marks only, and
\* the destinations differ only for kings (castling gained) and for pawns
\* (en passant lost)
C35_ExceptCastlingAndEnPassant ==
    Exported =>
        /\ last.decoded.value.currentTurn = last.arg.currentTurn
        /\ \A p \in DestinationsDiffer(last.arg, last.decoded.value) :
              \/ /\ last.arg.board[p.row][p.col].type = KING
                 /\ Destinations(getLegalMoves(p, last.arg))
                      \subseteq Destinations(getLegalMoves(p, last.decoded.value))
              \/ /\ last.arg.board[p.row][p.col].type = PAWN
                 /\ Destinations(getLegalMoves(p, last.decoded.value))
                      \subseteq Destinations(getLegalMoves(p, last.arg))


\* After a two-square advance the exported state has an en-passant capture
\* the re-imported state does not offer
C35_EnPassantLost ==
    /\ Exported
    /\ \E p \in DestinationsDiffer(last.arg, last.decoded.value) :
          \E i \in 1 .. Len(getLegalMoves(p, last.arg)) :
              getLegalMoves(p, last.arg)[i].special = "en-passant"

\* ------------------------------------------------------------------------
\* C36 : positions of legal moves and of history entries
\* ------------------------------------------------------------------------
\* The legal moves of the piece on p with from or to off the board
MovesOffBoard(p, gameState) ==
    {i \in 1 .. Len(getLegalMoves(p, gameState)) :
        \/ getLegalMoves(p, gameState)[i].from \notin Squares
        \/ getLegalMoves(p, gameState)[i].to \notin Squares}

\* Every position stored in the move history is on the board
HistoryInRange(moveHistory) ==
    \A i \in 1 .. Len(moveHistory) :
        /\ moveHistory[i].from \in Squares
        /\ moveHistory[i].to \in Squares

\* C36: for every state produced by initGameState() or fenToGameState and
\* any following moves, every move returned by getLegalMoves has from and to
\* inside [0,7]x[0,7], castling destinations included, and every position
\* stored in a moveHistory entry is in range.
C36_MovesInRange ==
    last.returned \in {"none", "state"} =>
        /\ \A p \in Squares : MovesOffBoard(p, cur) = {}
        /\ HistoryInRange(cur.moveHistory)

\* An unmoved king beside its rook is offered a castling move whose
\* destination is beyond the edge of the board
C36_CastlingOffBoard ==
    /\ last.returned \in {"none", "state"}
    /\ \E p \in KingSquares(cur.board, cur.currentTurn) :
          \E i \in MovesOffBoard(p, cur) :
              /\ getLegalMoves(p, cur)[i].special = "castling"
              /\ getLegalMoves(p, cur)[i].to.col \notin Idx

\* The history stays in range, and the only moves off the board are castling
\* moves of a king standing less than two columns from the edge
C36_ExceptCastlingNearEdge ==
    last.returned \in {"none", "state"} =>
        /\ HistoryInRange(cur.moveHistory)
        /\ \A p \in Squares :
              \A i \in MovesOffBoard(p, cur) :
                  /\ getLegalMoves(p, cur)[i].special = "castling"
                  /\ getLegalMoves(p, cur)[i].from = p
                  /\ p.col \in {0, 1, 6, 7}


\* ------------------------------------------------------------------------
\* C37 : the board accessors beyond the edges
\* ------------------------------------------------------------------------
\* The three accessors applied to `position` on `board`: nothing read,
\* nothing written, false returned, nothing raised
Refused(position, board) ==
    /\ \A piece \in AccessorPieces :
          /\ ~placePieceReturns(board, position, piece)
          /\ placePiece(board, position, piece) = board
    /\ ~clearPositionReturns(board, position)
    /\ clearPosition(board, position) = board
    /\ ~accessorRaises(position, board)
    /\ getPieceAt(position, board) = Null

\* The last call was made on a board accessor with a position off the board
AccessorCalledOutside ==
    /\ last.op \in {"getPieceAt", "placePiece", "clearPosition"}
    /\ last.from \notin Squares

\* C37: for any position outside [0,7]x[0,7], getPieceAt returns null, and
\* placePiece and clearPosition return false and leave every square of the
\* board unchanged; none of them raises.
C37_AccessorsRefuseOutside ==
    /\ last = NoCall => \A position \in PositionsOutside : Refused(position, cur.board)
    /\ AccessorCalledOutside =>
          /\ ~last.raised
          /\ last.op = "getPieceAt" => last.piece = Null
          /\ ~last.ok
          /\ cur.board = last.arg.board

\* placePiece was called with a position off the board: false came back
\* and the board is as it was
C37_Witness ==
    /\ AccessorCalledOutside
    /\ last.op = "placePiece"
    /\ ~last.ok
    /\ cur.board = last.arg.board

\* On the board the accessors read and write the square and return true
C37_InsideBoard ==
    last.from \in Squares =>
        /\ last.op = "getPieceAt" =>
              last.piece = cur.board[last.from.row][last.from.col]
        /\ last.op = "placePiece" =>
              last.ok /\ cur.board[last.from.row][last.from.col] = last.piece
        /\ last.op = "clearPosition" =>
              last.ok /\ cur.board[last.from.row][last.from.col] = Null


\* ------------------------------------------------------------------------
\* C38 : a side without a king
\* ------------------------------------------------------------------------
\* The last call asked for the moves of a piece whose side has no king
AskedWithoutKing ==
    /\ last.op = "getLegalMoves"
    /\ KingSquares(last.arg.board, last.color) = {}

\* C38: when the board holds no king of color c, isPlayerInCheck(s, c) and
\* isCheckmate(s, c) are false, the legality filter keeps every geometric
\* candidate of c's pieces, and movePiece accepts them.
C38_NoKingNoCheck ==
    AskedWithoutKing =>
        /\ ~last.isPlayerInCheck
        /\ ~last.isCheckmate
        /\ last.legalMoves = last.moves
        /\ last.accepted = Destinations(last.moves)

\* A piece of a side without a king that has candidates, all of them legal
\* and accepted
C38_Witness ==
    /\ AskedWithoutKing
    /\ last.moves # <<>>
    /\ last.legalMoves = last.moves
    /\ last.accepted = Destinations(last.moves)

\* With its king on the board the same piece is refused a candidate: the
\* pinned piece of the start position may leave the line once the king is gone
C38_WitnessPinned ==
    /\ AskedWithoutKing
    /\ \E s \in StartStates :
          /\ withoutKing(s) = last.arg
          /\ Len(getLegalMoves(last.from, s)) < Len(last.legalMoves)

====
